---- MODULE Spec2Model ----
(***************************************************************************)
(* phototank: the ingest / validate job pipelines, file placement with     *)
(* collision suffixes, the catalog upsert and the job record.              *)
(*                                                                         *)
(* The filesystem is three trees (staging, library, quarantine) plus the   *)
(* derivative tree; the catalog is the set of committed photo rows; the    *)
(* job record is the committed scan_jobs row.  A pipeline run is a         *)
(* sequence of steps: start, one step per item, finish / failure write.    *)
(***************************************************************************)
EXTENDS Integers, Sequences, FiniteSets, TLC

None == "None"

(* ------------------------------ bounds -------------------------------- *)
\* staged files per ingest job
MaxItems == 2
\* stands for the 10_000 of range(1, 10_000): suffixes 1 .. CollisionCap-1
CollisionCap == 3
\* pre-existing files per directory in the placement specification
MaxTaken == 3
\* upserts in the upsert specification
MaxUpserts == 3
\* calls of enrich_photo_location in a sequence of calls
MaxCalls == 2
\* lookups of all threads, and advances of the clock, in the throttle
\* specification
MaxLookups == 2
MaxSteps == 3
\* the latest wall-clock time and source mtime, and the calls, in the
\* derivative specification
MaxWall == 3
MaxDerivCalls == 2
MaxPhotos == 3

(* -------------------------- program constants ------------------------- *)
Attempts == 6
MaxRating == 3
ProgressEvery == 50
ValidateProgressEvery == 200
\* a session.commit() that is not wrapped is tried once
PlainCommitAttempts == 1

(* ------------------------------ domains ------------------------------- *)
Dates == {"d1", "d2"}
\* g1, g2: rows that exist before the job; g3.. : values uuid4 can return
OldGuids == {"g1", "g2"}
NewGuids == {"n1", "n2", "n3"}
Guids == OldGuids \cup NewGuids

\* A file name is its stem as a sequence: <<"a">> is a.jpg, <<"a", 1>> is
\* a__1.jpg, <<"a", 1, 2>> is a__1__2.jpg (all with the same extension).
Cand(name, i) == Append(name, i)

VARIABLES
    cfg,            \* the run's parameters and settings
    items,          \* the staged files, in the order iter_photo_files yields them
    staging,        \* indices of the items whose file is (still) under the staging root
    library,        \* library tree: rel_path -> content
    failedDir,      \* quarantine root: name -> content
    photos,         \* committed catalog rows
    thumb, mid,     \* derivative files: guid -> mtime (0: no file)
    job,            \* the committed job record
    pc,             \* where the pipeline function is
    idx,            \* next item (ingest) / next row (validate)
    cnt,            \* the function's local counters
    inserted_guids, \* the function's local set
    rows,           \* validate: the rows the query yields, in rel_path order
    cur,            \* the loop body's locals for the item being processed
    pending,        \* the catalog as the job's open transaction sees it
    before,         \* library and catalog as they were when the item began
    log,            \* per processed item: what happened to it
    place,          \* placement specification: last _safe_move/_safe_copy call
    ups,            \* upsert specification: last upsert_photo call
    call            \* single-function specifications: the call and its result

vars == <<cfg, items, staging, library, failedDir, photos, thumb, mid, job, pc,
          idx, cnt, inserted_guids, rows, cur, pending, before, log, place, ups, call>>

(* ------------------------------ helpers ------------------------------- *)
Range(f) == {f[i] : i \in DOMAIN f}

\* f with x bound to v (x may be new)
Put(f, x, v) == [y \in DOMAIN f \cup {x} |-> IF y = x THEN v ELSE f[y]]
\* f without x
Drop(f, x) == [y \in DOMAIN f \ {x} |-> f[y]]

Empty == [x \in {} |-> None]

(* --------------------------- file placement --------------------------- *)
\* no name: the collision loop ran out
NoName == <<>>

\* for i in range(i, 10_000): the first <stem>__i that does not exist;
\* no name when the loop runs out (RuntimeError)
RECURSIVE FirstFree(_, _, _)
FirstFree(taken, name, i) ==
    IF i >= CollisionCap THEN NoName
    ELSE IF Cand(name, i) \notin taken THEN Cand(name, i)
    ELSE FirstFree(taken, name, i + 1)

\* a placement that uses the destination name whether it exists or not
SafeDestOverwrites(taken, name) == name

\* The name _safe_move / _safe_copy ends up using in a directory whose taken
\* names are `taken`: dst if it does not exist, else the loop's name.
SafeDest(taken, name) ==
    IF name \notin taken THEN name ELSE FirstFree(taken, name, 1)

\* _maybe_guid_from_filename, then normalize_guid: the stem is a 32-hex id
GuidFromFilename(name) ==
    IF Len(name) = 1 /\ name[1] \in Guids THEN name[1] ELSE None

(* ----------------------------- capture date --------------------------- *)
\* a date inference that falls back to the file's mtime unasked
InferDatetimeMtime(it, order) == IF it.exif # None THEN it.exif ELSE it.mt

\* _infer_datetime_for_import: EXIF, then filename and mtime when configured
InferDatetime(it, order) ==
    IF it.exif # None THEN it.exif
    ELSE IF "filename" \in Range(order) /\ it.fn # None THEN it.fn
    ELSE IF "mtime" \in Range(order) THEN it.mt
    ELSE None

\* build_record's loop over the fallback order (json and mtime only)
RECURSIVE FallbackDatetime(_, _)
FallbackDatetime(it, order) ==
    IF order = <<>> THEN None
    ELSE LET fb == Head(order)
             dt == IF fb = "json" THEN it.json
                   ELSE IF fb = "mtime" THEN it.mt
                   ELSE None
         IN  IF dt # None THEN dt ELSE FallbackDatetime(it, Tail(order))

RecordDatetime(it, order) ==
    IF it.exif # None THEN it.exif ELSE FallbackDatetime(it, order)

(* ------------------------------- catalog ------------------------------ *)
RowAt(P, rel_path) == {r \in P : r.rel_path = rel_path}
RowOf(P, guid) == {r \in P : r.guid = guid}

\* an upsert whose SET list also takes the incoming rating
UpsertRowsSetsRating(P, rec) ==
    IF RowAt(P, rec.rel_path) = {}
    THEN P \cup {[rec EXCEPT !.rating = 0]}
    ELSE {IF r.rel_path = rec.rel_path
          THEN [r EXCEPT !.dt = rec.dt, !.of = rec.of, !.rating = rec.rating]
          ELSE r : r \in P}

\* upsert_photo: INSERT ... ON CONFLICT(rel_path) DO UPDATE SET <metadata>;
\* guid and rating of an existing row are not in the SET list.
UpsertRows(P, rec) ==
    IF RowAt(P, rec.rel_path) = {}
    THEN P \cup {[rec EXCEPT !.rating = 0]}
    ELSE {IF r.rel_path = rec.rel_path
          THEN [r EXCEPT !.dt = rec.dt, !.of = rec.of]
          ELSE r : r \in P}

\* an upsert that returns the guid of the record it was given
UpsertGuidIncoming(P, rec) == rec.guid

\* the guid upsert_photo returns: the one stored for rec.rel_path
UpsertGuid(P, rec) ==
    (CHOOSE r \in UpsertRows(P, rec) : r.rel_path = rec.rel_path).guid

(* ------------------------------ job record ---------------------------- *)
ZeroCnt == [processed |-> 0, upserted |-> 0, thumbs_done |-> 0,
            mids_done |-> 0, errors |-> 0]

\* create_job
NewJob == [state |-> "queued", processed |-> 0, upserted |-> 0,
           thumbs_done |-> 0, mids_done |-> 0, errors |-> 0,
           started_at |-> FALSE, finished_at |-> FALSE, message |-> None]

\* a write that stores the upserts net of the errors
WithCountersNet(j, c) ==
    [j EXCEPT !.processed = c.processed, !.upserted = c.upserted - c.errors,
              !.thumbs_done = c.thumbs_done, !.mids_done = c.mids_done,
              !.errors = c.errors]

WithCounters(j, c) ==
    [j EXCEPT !.processed = c.processed, !.upserted = c.upserted,
              !.thumbs_done = c.thumbs_done, !.mids_done = c.mids_done,
              !.errors = c.errors]

\* commit_with_retry after n lock errors in a row: the first error rolls the
\* session back, which drops the pending changes, so only n = 0 writes them.
\* The result is what the function returns: TRUE unless every attempt failed.
CommitPersists(n) == n = 0
CommitReturns(n) == n < Attempts
CommitTries == 0..Attempts

(* ----------------------------- derivatives ---------------------------- *)
\* wall-clock time (epoch) at which the job writes derivative files
JobTime == 2

\* a rule that takes an unknown source mtime for a newer source
ShouldRegenWhenUnknown(out_mtime, source_mtime) ==
    out_mtime = 0 \/ source_mtime = 0 \/ out_mtime < source_mtime

\* _should_regen: the output is missing, or older than a known source mtime
ShouldRegen(out_mtime, source_mtime) ==
    IF out_mtime = 0 THEN TRUE
    ELSE IF source_mtime = 0 THEN FALSE
    ELSE out_mtime < source_mtime

(* --------------------------- the staged files ------------------------- *)
\* exif / fn / json / mt: the date each source yields (None: it yields none);
\* mtime: the file's st_mtime
KA == [name |-> <<"a">>, exif |-> "d1", fn |-> None, json |-> None,
       mt |-> "d1", mtime |-> 2]
KB == [name |-> <<"a">>, exif |-> None, fn |-> "d2", json |-> "d2",
       mt |-> "d1", mtime |-> 1]
KG == [name |-> <<"g1">>, exif |-> None, fn |-> None, json |-> None,
       mt |-> "d1", mtime |-> 2]
ItemKinds == {KA, KB, KG}
ItemSeqs == UNION {[1..n -> ItemKinds] : n \in 0..MaxItems}

Orders == {<<>>, <<"filename">>, <<"json", "mtime">>}

\* rows that exist before the job runs
R1 == [guid |-> "g1", rel_path |-> [date |-> "d1", name |-> <<"a">>],
       dt |-> "d1", rating |-> 2, of |-> 0]
R2 == [guid |-> "g2", rel_path |-> [date |-> "d2", name |-> <<"b">>],
       dt |-> "d2", rating |-> 0, of |-> 0]

\* st_mtime of a file by its content: 0 is a file from before the job
ContentMtime(c) == IF c = 0 THEN 1 ELSE items[c].mtime

NoDerivs == [g \in Guids |-> 0]
DerivsFor(P) == [g \in Guids |-> IF RowOf(P, g) # {} THEN 1 ELSE 0]
FilesFor(P) == [p \in {r.rel_path : r \in P} |-> 0]

NoRel == [date |-> None, name |-> NoName]
\* locks: the lock errors the item's commit met before it was given up
NoCur == [path |-> None, rel |-> NoRel, guid |-> None, fails |-> None,
          locks |-> 0]
NoBefore == [library |-> Empty, photos |-> {}]

NoPlace == [op |-> None]
NoUps == [op |-> None]
NoCall == [op |-> None]

Init ==
    /\ cfg \in [jobType : {"ingest", "validate"}, mode : {"move", "copy"},
                manage : BOOLEAN, order : Orders, exists : BOOLEAN]
    /\ cfg.jobType = "validate" =>
           cfg.mode = "move" /\ cfg.manage /\ cfg.order = <<>>
    /\ ~cfg.manage => cfg.mode = "move" /\ cfg.order = <<>>
    /\ ~cfg.exists => cfg.mode = "move" /\ cfg.manage /\ cfg.order = <<>>
    /\ items \in ItemSeqs
    /\ cfg.jobType = "validate" => items = <<>>
    /\ ~cfg.exists => items = <<>>
    /\ staging = DOMAIN items
    /\ photos \in IF cfg.jobType = "validate" THEN {{R1, R2}} ELSE {{}, {R1}}
    /\ \E present \in SUBSET photos : library = FilesFor(present)
    /\ \E d \in {NoDerivs, DerivsFor(photos)} : thumb = d /\ mid = d
    /\ failedDir = Empty
    /\ job = NewJob
    /\ pc = "queued"
    /\ idx = 1
    /\ cnt = ZeroCnt
    /\ inserted_guids = {}
    /\ rows = <<>>
    /\ cur = NoCur
    /\ pending = photos
    /\ before = NoBefore
    /\ log = <<>>
    /\ place = NoPlace
    /\ ups = NoUps
    /\ call = NoCall

(* ------------------------------ job steps ----------------------------- *)
jobVars == <<items, staging, library, failedDir, photos, thumb, mid, cur,
            pending, before>>

\* validate: the rows of the query, ordered by rel_path
DateRank(d) == IF d = "d1" THEN 1 ELSE 2
RECURSIVE SortedRows(_)
SortedRows(P) ==
    IF P = {} THEN <<>>
    ELSE LET r == CHOOSE x \in P : \A y \in P :
                      \/ DateRank(x.rel_path.date) < DateRank(y.rel_path.date)
                      \/ /\ x.rel_path.date = y.rel_path.date
                         /\ Len(x.rel_path.name) <= Len(y.rel_path.name)
         IN  <<r>> \o SortedRows(P \ {r})

\* run_ingest_job / run_validate_job up to the loop: the first session marks
\* the job running (ingest: when manage_job_state) and commits with retry.
\* The commit is outside the function's try: an error other than a lock
\* error leaves the function at once.
Start ==
    /\ pc = "queued"
    /\ IF ~cfg.exists
       THEN /\ pc' = "returned"
            /\ UNCHANGED <<job, rows>>
       ELSE \/ \E n \in CommitTries :
                 /\ job' = IF CommitPersists(n) /\ cfg.manage
                           THEN [job EXCEPT !.state = "running", !.started_at = TRUE]
                           ELSE job
                 /\ pc' = "loop"
                 /\ rows' = IF cfg.jobType = "validate" THEN SortedRows(photos)
                            ELSE rows
            \/ /\ pc' = "raised"
               /\ UNCHANGED <<job, rows>>
    /\ UNCHANGED <<cfg, jobVars, idx, cnt, inserted_guids, log, place, ups, call>>

NItems == IF cfg.jobType = "validate" THEN Len(rows) ELSE Len(items)

\* a finish write that marks the job done whoever manages its state
FinishedJobAlways(j, c, manage) ==
    [WithCounters(j, c) EXCEPT !.state = "done", !.finished_at = TRUE]

\* lines 418-425: the final counters, and state done with the finish time
\* when the job manages its own state
FinishedJob(j, c, manage) ==
    IF manage
    THEN [WithCounters(j, c) EXCEPT !.state = "done", !.finished_at = TRUE]
    ELSE WithCounters(j, c)

\* after the loop: the final counters, state done, finish time, commit with
\* retry (its result is not looked at); an error goes to the except branch
Finish ==
    /\ pc = "loop"
    /\ idx > NItems
    /\ \/ \E n \in CommitTries :
            /\ job' = IF CommitPersists(n)
                      THEN FinishedJob(job, cnt, cfg.manage)
                      ELSE job
            /\ pc' = "returned"
       \/ /\ pc' = "except"
          /\ job' = job
    /\ UNCHANGED <<cfg, jobVars, idx, cnt, inserted_guids, rows, log, place, ups, call>>

\* except Exception as e: a new session writes state failed, the message,
\* the finish time and the counters, and commits with retry
JobFailed ==
    /\ pc = "except"
    /\ IF ~cfg.manage
       THEN /\ pc' = "returned_exc"
            /\ job' = job
       ELSE \/ \E n \in CommitTries :
                 /\ job' = IF CommitPersists(n)
                           THEN [WithCounters(job, cnt) EXCEPT
                                    !.state = "failed", !.message = "exc",
                                    !.finished_at = TRUE]
                           ELSE job
                 /\ pc' = "returned_exc"
            \/ /\ pc' = "raised"
               /\ job' = job
    /\ UNCHANGED <<cfg, jobVars, idx, cnt, inserted_guids, rows, log, place, ups, call>>

(* --------------------------- one staged file -------------------------- *)
Bump(c, f) == [c EXCEPT ![f] = @ + 1]

\* a directory listing that sees no file
LibTakenNone(lib, d) == {}

\* names taken in the library directory of a date
LibTaken(lib, d) == {p.name : p \in {q \in DOMAIN lib : q.date = d}}

\* uuid4().hex: a guid no row has
FreshGuid(P) == CHOOSE g \in NewGuids : RowOf(P, g) = {}

\* the guids this run has met: those of the rows and those it handed out
UsedGuids == pending \cup {[guid |-> g] : g \in inserted_guids}

\* a lookup that never finds the row a file is named after
ReplaceTargetNone(i) == {}

\* the row a staged file replaces by name, if any (session.get(Photo, guid))
ReplaceTarget(i) ==
    LET g == GuidFromFilename(items[i].name)
    IN  IF g = None THEN {} ELSE RowOf(pending, g)

Entry(out, path, rel, guid, of, P) ==
    [out |-> out, path |-> path, rel |-> rel, guid |-> guid, of |-> of,
     row |-> RowAt(P, rel)]

itemVars == <<cfg, items, job, rows, place, ups, call>>

\* a quarantine that moves the staged file in either mode
QuarantineSourceMoves(i) ==
    LET dest == SafeDest(DOMAIN failedDir, items[i].name)
    IN  IF i \notin staging \/ dest = NoName
        THEN UNCHANGED <<failedDir, staging>>
        ELSE /\ failedDir' = Put(failedDir, dest, i)
             /\ staging' = staging \ {i}

\* _quarantine_failed (move) / _quarantine_failed_copy (copy) of the staged
\* file i inside a try whose except swallows the error: with no free name,
\* or with the source gone, nothing changes
QuarantineSource(i) ==
    LET dest == SafeDest(DOMAIN failedDir, items[i].name)
    IN  IF i \notin staging \/ dest = NoName
        THEN UNCHANGED <<failedDir, staging>>
        ELSE /\ failedDir' = Put(failedDir, dest, i)
             /\ staging' = IF cfg.mode = "move" THEN staging \ {i} ELSE staging

\* ingest.py lines 232-330: the next staged file, up to its placement.
\* Replace-by-name (250-273), no capture date (316-324), or placement in
\* the library directory of its date (326-330).
TakeItem ==
    /\ pc = "loop"
    /\ cfg.jobType = "ingest"
    /\ idx <= Len(items)
    /\ cnt' = IF \/ (ReplaceTarget(idx) = {} /\ InferDatetime(items[idx], cfg.order) = None)
                 \/ (/\ ReplaceTarget(idx) = {}
                     /\ SafeDest(LibTaken(library, InferDatetime(items[idx], cfg.order)),
                                 items[idx].name) = NoName)
              THEN Bump(Bump(cnt, "processed"), "errors")
              ELSE Bump(cnt, "processed")
    /\ before' = [library |-> library, photos |-> photos]
    /\ IF ReplaceTarget(idx) # {}
       THEN \E ex \in ReplaceTarget(idx) :
              \* _replace_into_library, then both derivatives are unlinked
              /\ library' = Put(library, ex.rel_path, idx)
              /\ staging' = IF cfg.mode = "move" THEN staging \ {idx} ELSE staging
              /\ thumb' = [thumb EXCEPT ![ex.guid] = 0]
              /\ mid' = [mid EXCEPT ![ex.guid] = 0]
              /\ cur' = [path |-> "replace", rel |-> ex.rel_path, guid |-> None,
                         fails |-> None, locks |-> 0]
              /\ pc' = "placed"
              /\ UNCHANGED <<failedDir, idx, log>>
       ELSE IF InferDatetime(items[idx], cfg.order) = None
       THEN /\ QuarantineSource(idx)
            /\ log' = Append(log, Entry("nodate", "import", NoRel, None, idx, {}))
            \* quarantined: `continue`; the quarantine call raised: outer except
            /\ IF SafeDest(DOMAIN failedDir, items[idx].name) = NoName
               THEN pc' = "progress" /\ idx' = idx
               ELSE pc' = "loop" /\ idx' = idx + 1
            /\ UNCHANGED <<library, thumb, mid, cur>>
       ELSE \E dt \in {InferDatetime(items[idx], cfg.order)} :
            \E dest \in {SafeDest(LibTaken(library, dt), items[idx].name)} :
              IF dest = NoName
              THEN \* _place_into_library raises: the outer except
                   /\ QuarantineSource(idx)
                   /\ log' = Append(log, Entry("failed", "import", NoRel, None, idx, {}))
                   /\ pc' = "progress"
                   /\ UNCHANGED <<library, thumb, mid, cur, idx>>
              ELSE /\ library' = Put(library, [date |-> dt, name |-> dest], idx)
                   /\ staging' = IF cfg.mode = "move" THEN staging \ {idx}
                                 ELSE staging
                   /\ cur' = [path |-> "import",
                              rel |-> [date |-> dt, name |-> dest],
                              guid |-> None, fails |-> None, locks |-> 0]
                   /\ pc' = "placed"
                   /\ UNCHANGED <<failedDir, thumb, mid, idx, log>>
    /\ UNCHANGED <<itemVars, photos, pending, inserted_guids>>

\* build_record and upsert_photo (lines 275-292 / 334-348).  The upsert is
\* executed in the session's transaction; it is committed later.
BuildUpsert ==
    /\ pc = "placed"
    /\ \/ \E rec \in {[guid |-> FreshGuid(UsedGuids), rel_path |-> cur.rel,
                       dt |-> IF cur.path = "replace"
                              THEN LET ex == CHOOSE r \in RowAt(pending, cur.rel) : TRUE
                                   IN  IF ex.dt # None THEN ex.dt
                                       ELSE RecordDatetime(items[idx], cfg.order)
                              ELSE RecordDatetime(items[idx], cfg.order),
                       rating |-> 0, of |-> idx]} :
            /\ pending' = UpsertRows(pending, rec)
            /\ cur' = [cur EXCEPT !.guid = UpsertGuid(pending, rec)]
            /\ inserted_guids' =
                   IF cur.path = "import" /\ RowAt(pending, cur.rel) = {}
                   THEN inserted_guids \cup {UpsertGuid(pending, rec)}
                   ELSE inserted_guids
            /\ cnt' = Bump(cnt, "upserted")
            /\ pc' = "upserted"
       \/ \E at \in {"build", "upsert"} :
            /\ cur' = [cur EXCEPT !.fails = at]
            /\ pc' = "failed"
            /\ UNCHANGED <<pending, inserted_guids, cnt>>
    /\ UNCHANGED <<itemVars, staging, library, failedDir, photos, thumb, mid,
                   idx, before, log>>

\* enrich_photo_location on the upserted row (lines 294-296 / 350-352)
Enrich ==
    /\ pc = "upserted"
    /\ \/ /\ pc' = "enriched"
          /\ cur' = cur
       \/ /\ pc' = "failed"
          /\ cur' = [cur EXCEPT !.fails = "geocode"]
    /\ UNCHANGED <<itemVars, staging, library, failedDir, photos, thumb, mid,
                   idx, cnt, inserted_guids, pending, before, log>>

\* ensure_derivatives for guid with the source's mtime: "none" runs through,
\* "derivs" fails at Image.open (nothing written), "mid" fails saving mid
\* (thumb already written).  A call that needs neither output opens nothing.
EnsureDerivatives(guid, source_mtime, fp) ==
    /\ fp = "derivs" => \/ ShouldRegen(thumb[guid], source_mtime)
                        \/ ShouldRegen(mid[guid], source_mtime)
    /\ fp = "mid" => ShouldRegen(mid[guid], source_mtime)
    /\ thumb' = IF ShouldRegen(thumb[guid], source_mtime) /\ fp # "derivs"
                THEN [thumb EXCEPT ![guid] = JobTime] ELSE thumb
    /\ mid' = IF ShouldRegen(mid[guid], source_mtime) /\ fp = "none"
              THEN [mid EXCEPT ![guid] = JobTime] ELSE mid
    /\ cnt' = IF fp # "none" THEN cnt
              ELSE [cnt EXCEPT
                     !.thumbs_done = IF ShouldRegen(thumb[guid], source_mtime)
                                     THEN @ + 1 ELSE @,
                     !.mids_done = IF ShouldRegen(mid[guid], source_mtime)
                                   THEN @ + 1 ELSE @]

\* lines 298-311 / 354-367
Derive ==
    /\ pc = "enriched"
    /\ \E fp \in {"none", "derivs", "mid"} :
          /\ EnsureDerivatives(cur.guid, items[idx].mtime, fp)
          /\ pc' = IF fp = "none" THEN "derived" ELSE "failed"
          /\ cur' = IF fp = "none" THEN cur ELSE [cur EXCEPT !.fails = fp]
    /\ UNCHANGED <<itemVars, staging, library, failedDir, photos, idx,
                   inserted_guids, pending, before, log>>

\* session.commit() (line 313 / 369), called once: the first error of any
\* kind, a lock error too, goes to the except branch; replace-by-name then
\* does `continue`
CommitItem ==
    /\ pc = "derived"
    /\ \/ /\ photos' = pending
          /\ log' = Append(log, Entry("ok", cur.path, cur.rel, cur.guid, idx, pending))
          /\ cur' = NoCur
          /\ IF cur.path = "replace"
             THEN pc' = "loop" /\ idx' = idx + 1
             ELSE pc' = "progress" /\ idx' = idx
       \/ \E why \in {"commit", "locked"} :
            /\ pc' = "failed"
            /\ cur' = [cur EXCEPT !.fails = why,
                                  !.locks = IF why = "locked"
                                            THEN PlainCommitAttempts ELSE 0]
            /\ UNCHANGED <<photos, log, idx>>
    /\ UNCHANGED <<itemVars, staging, library, failedDir, thumb, mid, cnt,
                   inserted_guids, pending, before>>

\* a cleanup that deletes the row and leaves the derivative files
CleanupKeepsDerivs(guid) ==
    /\ UNCHANGED <<thumb, mid>>
    /\ photos' = photos \ RowOf(photos, guid)

\* _cleanup_db_and_derivs: unlink both derivatives, delete the row if there
\* is one and commit; a failing commit is rolled back and swallowed
Cleanup(guid) ==
    /\ thumb' = [thumb EXCEPT ![guid] = 0]
    /\ mid' = [mid EXCEPT ![guid] = 0]
    /\ \/ photos' = photos \ RowOf(photos, guid)
       \/ RowOf(photos, guid) # {} /\ photos' = photos

\* the except branches: lines 371-393 for a normal import (rollback, cleanup
\* when the guid is known, quarantine of the placed file), lines 395-408 for
\* replace-by-name (rollback, quarantine of the staged file)
ItemFailed ==
    /\ pc = "failed"
    /\ IF cur.path = "replace"
       THEN /\ QuarantineSource(idx)
            /\ UNCHANGED <<library, photos, thumb, mid>>
       ELSE /\ IF cur.guid # None THEN Cleanup(cur.guid)
               ELSE UNCHANGED <<photos, thumb, mid>>
            /\ IF cfg.mode = "move"
               THEN \E q \in {SafeDest(DOMAIN failedDir, cur.rel.name)} :
                      IF q = NoName THEN UNCHANGED <<library, failedDir>>
                      ELSE /\ library' = Drop(library, cur.rel)
                           /\ failedDir' = Put(failedDir, q, idx)
               ELSE \E q \in {SafeDest(DOMAIN failedDir, items[idx].name)} :
                      /\ library' = Drop(library, cur.rel)
                      /\ failedDir' = IF q = NoName THEN failedDir
                                      ELSE Put(failedDir, q, idx)
            /\ staging' = staging
    /\ pending' = photos'
    /\ cnt' = Bump(cnt, "errors")
    /\ log' = Append(log, Entry("failed", cur.path, cur.rel, cur.guid, idx, {}))
    /\ cur' = NoCur
    /\ pc' = "progress"
    /\ UNCHANGED <<itemVars, idx, inserted_guids, before>>

\* lines 410-416 / validate.py 115-121: the counters go to the job record
\* after the first item and every 50th (200th), with commit_with_retry
WriteProgress ==
    /\ pc = "progress"
    /\ idx' = idx + 1
    /\ cur' = NoCur
    /\ IF cnt.processed = 1 \/
          cnt.processed % (IF cfg.jobType = "validate" THEN ValidateProgressEvery
                           ELSE ProgressEvery) = 0
       THEN \/ \E n \in CommitTries :
                 /\ job' = IF CommitPersists(n) THEN WithCounters(job, cnt) ELSE job
                 /\ pc' = "loop"
            \/ /\ job' = job
               /\ pc' = "except"
       ELSE /\ job' = job
            /\ pc' = "loop"
    /\ UNCHANGED <<cfg, items, staging, library, failedDir, photos, thumb, mid,
                   cnt, inserted_guids, rows, pending, before, log, place, ups, call>>

(* --------------------------- one catalog row -------------------------- *)
\* a loop that skips a row with a missing source without counting it
TakeRowSkipsSilently ==
    /\ pc = "loop"
    /\ cfg.jobType = "validate"
    /\ idx <= Len(rows)
    /\ before' = [library |-> library, photos |-> photos]
    /\ IF rows[idx].rel_path \notin DOMAIN library
       THEN /\ cnt' = Bump(cnt, "processed")
            /\ log' = Append(log, Entry("missing", "validate", rows[idx].rel_path,
                                        rows[idx].guid, 0, photos))
            /\ pc' = "loop"
            /\ idx' = idx + 1
            /\ cur' = cur
       ELSE /\ cnt' = Bump(cnt, "processed")
            /\ cur' = [path |-> "validate", rel |-> rows[idx].rel_path,
                       guid |-> rows[idx].guid, fails |-> None, locks |-> 0]
            /\ pc' = "v_derive"
            /\ UNCHANGED <<log, idx>>
    /\ UNCHANGED <<itemVars, staging, library, failedDir, photos, thumb, mid,
                   inserted_guids, pending>>

\* validate.py lines 73-80: the next row; a missing source file is an error
\* and the loop goes on with `continue`
TakeRow ==
    /\ pc = "loop"
    /\ cfg.jobType = "validate"
    /\ idx <= Len(rows)
    /\ before' = [library |-> library, photos |-> photos]
    /\ IF rows[idx].rel_path \notin DOMAIN library
       THEN /\ cnt' = Bump(Bump(cnt, "processed"), "errors")
            /\ log' = Append(log, Entry("missing", "validate", rows[idx].rel_path,
                                        rows[idx].guid, 0, photos))
            /\ pc' = "loop"
            /\ idx' = idx + 1
            /\ cur' = cur
       ELSE /\ cnt' = Bump(cnt, "processed")
            /\ cur' = [path |-> "validate", rel |-> rows[idx].rel_path,
                       guid |-> rows[idx].guid, fails |-> None, locks |-> 0]
            /\ pc' = "v_derive"
            /\ UNCHANGED <<log, idx>>
    /\ UNCHANGED <<itemVars, staging, library, failedDir, photos, thumb, mid,
                   inserted_guids, pending>>

\* validate.py lines 82-103
ValidateDerive ==
    /\ pc = "v_derive"
    /\ \E fp \in {"none", "derivs", "mid"} :
          /\ EnsureDerivatives(cur.guid, ContentMtime(library[cur.rel]), fp)
          /\ pc' = IF fp = "none" THEN "v_enrich" ELSE "v_failed"
          /\ cur' = IF fp = "none" THEN cur ELSE [cur EXCEPT !.fails = fp]
    /\ UNCHANGED <<itemVars, staging, library, failedDir, photos, idx,
                   inserted_guids, pending, before, log>>

\* validate.py lines 105-110: enrich_photo_location, and when it changed the
\* row a commit_with_retry whose FALSE counts as an error
ValidateEnrich ==
    /\ pc = "v_enrich"
    /\ \/ \E n \in CommitTries :
            /\ cnt' = IF CommitReturns(n) THEN cnt ELSE Bump(cnt, "errors")
            /\ log' = Append(log, Entry(IF CommitReturns(n) THEN "ok" ELSE "failed",
                                        "validate", cur.rel, cur.guid, 0, photos))
            /\ pc' = "progress"
            /\ cur' = [NoCur EXCEPT !.locks = n,
                                    !.fails = IF CommitReturns(n) THEN None
                                              ELSE "locked"]
       \/ /\ pc' = "v_failed"
          /\ cur' = [cur EXCEPT !.fails = "geocode"]
          /\ UNCHANGED <<cnt, log>>
    /\ UNCHANGED <<itemVars, staging, library, failedDir, photos, thumb, mid,
                   idx, inserted_guids, pending, before>>

\* validate.py lines 111-113: except Exception
ValidateFailed ==
    /\ pc = "v_failed"
    /\ cnt' = Bump(cnt, "errors")
    /\ log' = Append(log, Entry("failed", "validate", cur.rel, cur.guid, 0, photos))
    /\ cur' = NoCur
    /\ pc' = "progress"
    /\ UNCHANGED <<itemVars, staging, library, failedDir, photos, thumb, mid,
                   idx, inserted_guids, pending, before>>

Next ==
    \/ Start
    \/ TakeItem \/ BuildUpsert \/ Enrich \/ Derive \/ CommitItem \/ ItemFailed
    \/ TakeRow \/ ValidateDerive \/ ValidateEnrich \/ ValidateFailed
    \/ WriteProgress
    \/ Finish
    \/ JobFailed

Spec == Init /\ [][Next]_vars

(* ---------------- _safe_move / _safe_copy on one directory ------------ *)
\* At rest: the variables of the job pipeline while single operations are
\* exercised on a directory or on the catalog.
AtRest ==
    /\ cfg = [jobType |-> "ingest", mode |-> "move", manage |-> TRUE,
              order |-> <<>>, exists |-> TRUE]
    /\ items = <<>>
    /\ library = Empty
    /\ thumb = NoDerivs /\ mid = NoDerivs
    /\ job = NewJob
    /\ pc = "idle"
    /\ idx = 1
    /\ cnt = ZeroCnt
    /\ inserted_guids = {}
    /\ rows = <<>>
    /\ cur = NoCur
    /\ before = NoBefore
    /\ log = <<>>

restVars == <<cfg, items, library, thumb, mid, job, pc, idx, cnt,
              inserted_guids, rows, cur, before, log>>

\* destination names of the calls, and the names a directory starts with
DestNames == {<<"a">>, <<"a", 1>>}
StartNames == {<<"a">>} \cup {Cand(<<"a">>, i) : i \in 1..(CollisionCap - 1)}

InitPlace ==
    /\ AtRest
    /\ photos = {} /\ pending = {}
    /\ ups = NoUps
    /\ call = NoCall
    /\ staging = 1..MaxItems
    /\ \E taken \in SUBSET StartNames :
          /\ Cardinality(taken) <= MaxTaken
          /\ failedDir = [n \in taken |-> 0]
    /\ place = NoPlace

\* _safe_move(src, dst) / _safe_copy(src, dst) into the directory: the file
\* src goes to the name SafeDest gives, or the call raises and nothing moves
SafePlace(op, src, dst) ==
    /\ src \in staging
    /\ \E dest \in {SafeDest(DOMAIN failedDir, dst)} :
          /\ place' = [op |-> op, src |-> src, name |-> dst, dest |-> dest]
          /\ IF dest = NoName
             THEN UNCHANGED <<failedDir, staging>>
             ELSE /\ failedDir' = Put(failedDir, dest, src)
                  /\ staging' = IF op = "move" THEN staging \ {src} ELSE staging
    /\ UNCHANGED <<restVars, photos, pending, ups, call>>

SafeMove == \E src \in 1..MaxItems, dst \in DestNames : SafePlace("move", src, dst)
SafeCopy == \E src \in 1..MaxItems, dst \in DestNames : SafePlace("copy", src, dst)

NextPlace == SafeMove \/ SafeCopy

SpecPlace == InitPlace /\ [][NextPlace]_vars

(* ------------------------ upsert_photo on a catalog ------------------- *)
RelPaths == {[date |-> "d1", name |-> <<"a">>],
             [date |-> "d1", name |-> <<"a", 1>>],
             [date |-> "d2", name |-> <<"b">>]}

InitUpsert ==
    /\ AtRest
    /\ staging = {} /\ failedDir = Empty
    /\ place = NoPlace
    /\ \E k \in 0..MaxRating :
          photos \in {{}, {[R1 EXCEPT !.rating = k]},
                      {[R1 EXCEPT !.rating = k], R2}}
    /\ pending = photos
    /\ ups = [op |-> None, n |-> 0]
    /\ call = NoCall

\* upsert_photo(session, rec) for a record build_record made: a new guid
\* from uuid4, any path, any date; the statement runs in the session
UpsertPhoto ==
    /\ ups.n < MaxUpserts
    /\ \E g \in NewGuids, rp \in RelPaths, dt \in Dates :
          /\ RowOf(pending, g) = {}
          /\ \E rec \in {[guid |-> g, rel_path |-> rp, dt |-> dt,
                            rating |-> 0, of |-> 1]} :
                /\ pending' = UpsertRows(pending, rec)
                /\ ups' = [op |-> "upsert", n |-> ups.n + 1, rec |-> rec,
                           had |-> RowAt(pending, rp),
                           guid |-> UpsertGuid(pending, rec)]
    /\ UNCHANGED <<restVars, staging, failedDir, place, photos, call>>

\* session.commit()
CommitUpserts ==
    /\ pending # photos
    /\ photos' = pending
    /\ UNCHANGED <<restVars, staging, failedDir, place, pending, ups, call>>

NextUpsert == UpsertPhoto \/ CommitUpserts

SpecUpsert == InitUpsert /\ [][NextUpsert]_vars

(* --------------- replace-by-name: the merged record ------------------- *)
\* Python's truth value of an optional string
Falsy(x) == x \in {None, ""}

\* ingest.py lines 281-289: replace(rec, ...) with the row found by name
ReplaceMerge(existing, rec) ==
    [dt |-> IF ~Falsy(existing.dt) THEN existing.dt ELSE rec.dt,
     alt |-> IF rec.alt # None THEN rec.alt ELSE existing.alt,
     lat |-> IF rec.lat # None THEN rec.lat ELSE existing.lat,
     lon |-> IF rec.lon # None THEN rec.lon ELSE existing.lon,
     make |-> IF ~Falsy(rec.make) THEN rec.make ELSE existing.make,
     comment |-> IF ~Falsy(rec.comment) THEN rec.comment ELSE existing.comment]

MergeFields == {"dt", "alt", "lat", "lon", "make", "comment"}

\* values of a stored field, of an extracted text and of an extracted number
StoredValues == {None, "old"}
NewTexts == {None, "", "new"}
NewNumbers == {None, "0.0", "new"}

\* everything but `call` stays as it is
quietVars == <<restVars, staging, failedDir, photos, pending, place, ups>>

Quiet ==
    /\ AtRest
    /\ staging = {} /\ failedDir = Empty
    /\ photos = {} /\ pending = {}
    /\ place = NoPlace /\ ups = NoUps

InitMerge ==
    /\ Quiet
    /\ \E existing \in [MergeFields -> StoredValues],
          rec \in [dt : {None, "new"}, alt : NewNumbers, lat : NewNumbers,
                   lon : NewNumbers, make : NewTexts, comment : NewTexts] :
          call = [op |-> "replace", existing |-> existing, rec |-> rec]

Merge ==
    /\ call.op = "replace"
    /\ call' = [op |-> "merged", existing |-> call.existing, rec |-> call.rec,
                out |-> ReplaceMerge(call.existing, call.rec)]
    /\ UNCHANGED quietVars

NextMerge == Merge

SpecMerge == InitMerge /\ [][NextMerge]_vars

(* --------------------------- commit_with_retry ------------------------ *)
\* a wrapper that gives up one attempt late
GivesUpLate(attempt, attempts) == attempt > attempts

\* job_helpers.py line 38: if attempt >= attempts
GivesUp(attempt, attempts) == attempt >= attempts

\* values of the one column the session writes
ColumnValues == 0..1

\* commit_with_retry(session, attempts=...) is entered: db is the committed
\* value, sess the value the session is about to commit
InitRetry ==
    /\ Quiet
    /\ \E attempts \in 1..Attempts, db \in ColumnValues, sess \in ColumnValues :
          call = [op |-> "commit_with_retry", attempts |-> attempts,
                  attempt |-> 1, made |-> 0, rollbacks |-> 0, sleeps |-> 0,
                  db |-> db, sess |-> sess, last |-> None, result |-> None]

Running == call.op = "commit_with_retry" /\ call.result = None

\* session.commit() succeeds: return True
CommitSucceeds ==
    /\ Running
    /\ call' = [call EXCEPT !.made = @ + 1, !.db = call.sess, !.last = "ok",
                            !.result = "true"]
    /\ UNCHANGED quietVars

\* session.commit() raises an OperationalError that is_sqlite_lock_error
\* accepts: rollback (the session forgets its change), then give up with
\* False or sleep and go round again
CommitLocked ==
    /\ Running
    /\ call' = IF GivesUp(call.attempt, call.attempts)
               THEN [call EXCEPT !.made = @ + 1, !.rollbacks = @ + 1,
                                 !.sess = call.db, !.last = "locked",
                                 !.result = "false"]
               ELSE [call EXCEPT !.made = @ + 1, !.rollbacks = @ + 1,
                                 !.sess = call.db, !.last = "locked",
                                 !.sleeps = @ + 1, !.attempt = @ + 1]
    /\ UNCHANGED quietVars

\* session.commit() raises anything else: it leaves the function at once
CommitRaises ==
    /\ Running
    /\ call' = [call EXCEPT !.made = @ + 1, !.last = "other",
                            !.result = "raised"]
    /\ UNCHANGED quietVars

NextRetry == CommitSucceeds \/ CommitLocked \/ CommitRaises

SpecRetry == InitRetry /\ [][NextRetry]_vars

(* ====================== claims: job pipelines ========================= *)
Managed == cfg.exists /\ cfg.manage
Returned == pc \in {"returned", "returned_exc"}

\* C1: the persisted job state only moves queued -> running -> done or
\* queued -> running -> failed: done or failed is never written over a
\* state other than running, and a done or failed job never changes state.
C1_StateMachine ==
    [][Managed /\ job'.state # job.state =>
          <<job.state, job'.state>> \in {<<"queued", "running">>,
                                         <<"running", "done">>,
                                         <<"running", "failed">>}]_vars

\* C3: when the pipeline function of an existing job returns, the persisted
\* state is done or failed, never queued or running.
C3_EndsDoneOrFailed ==
    Managed /\ Returned => job.state \in {"done", "failed"}

\* C4: when an exception escapes the per-item handling, the failure write
\* leaves the job persisted as failed with the message, a finish time and
\* the counters reached so far, and the committed catalog rows stay.
C4_FailedIsRecorded ==
    [][Managed /\ pc = "except" =>
          /\ job'.state = "failed"
          /\ job'.message = "exc"
          /\ job'.finished_at
          /\ job' = WithCounters(job', cnt)
          /\ photos' = photos]_vars

(* ======================= claims: ingest items ========================= *)
Ingest == cfg.exists /\ cfg.jobType = "ingest"

\* the step that ends the processing of an item with a failure
ItemFailureStep ==
    /\ cfg.exists
    /\ Len(log') = Len(log) + 1
    /\ log'[Len(log')].out # "ok"

\* C2: a failure while processing one item does not stop the job (the loop
\* goes on to the progress write and the next item), and the catalog rows
\* and library files of the items committed earlier in the job are as they
\* were when the failing item began.
C2_FailureIsIsolated ==
    [][ItemFailureStep =>
          /\ pc' \in {"progress", "loop"}
          /\ \A k \in 1..Len(log) :
                log[k].out = "ok" =>
                   /\ RowAt(photos', log[k].rel) = RowAt(before'.photos, log[k].rel)
                   /\ log[k].path # "validate" =>
                         /\ log[k].rel \in DOMAIN library'
                         /\ library'[log[k].rel] = before'.library[log[k].rel]]_vars

InLibrary(i) ==
    \E p \in DOMAIN library : library[p] = i /\ RowAt(photos, p) # {}
InQuarantine(i) == \E q \in DOMAIN failedDir : failedDir[q] = i
\* a later file of the same job replaced, by name, the row at whose path i was
Overwritten(i) ==
    \E k, j \in DOMAIN log :
        /\ log[k].of = i /\ log[j].of > i
        /\ log[k].out = "ok" \/ log[k].path = "replace"
        /\ log[j].path = "replace"
        /\ log[k].rel = log[j].rel

MoveJobDone == Ingest /\ cfg.mode = "move" /\ pc = "returned"

ImportFails == cfg.exists /\ pc = "failed" /\ cur.path = "import"

\* the part of C6 that is about the files
FailedImportFiles ==
    /\ cur.guid # None => thumb'[cur.guid] = 0 /\ mid'[cur.guid] = 0
    /\ cur.rel \notin DOMAIN library'
    /\ \E q \in DOMAIN failedDir' \ DOMAIN failedDir : failedDir'[q] = idx
    /\ idx \in staging' <=> cfg.mode = "copy"

FallbackYield(it, fb) ==
    IF fb = "json" THEN it.json
    ELSE IF fb = "filename" THEN it.fn
    ELSE IF fb = "mtime" THEN it.mt
    ELSE None

\* no EXIF date and no configured fallback yields one
NoDate(it) ==
    /\ it.exif = None
    /\ \A k \in DOMAIN cfg.order : FallbackYield(it, cfg.order[k]) = None

C9_PlacementNeverOverwrites ==
    [][place' # place =>
          LET taken == DOMAIN failedDir
              n == place'.name
              d == place'.dest
              free == {i \in 1..(CollisionCap - 1) : Cand(n, i) \notin taken}
          IN  /\ \A x \in taken : x \in DOMAIN failedDir' /\ failedDir'[x] = failedDir[x]
              /\ n \notin taken => d = n
              /\ n \in taken /\ free # {} =>
                    \E i \in free : /\ d = Cand(n, i)
                                    /\ \A j \in free : i <= j
              /\ n \in taken /\ free = {} =>
                    d = NoName /\ failedDir' = failedDir /\ staging' = staging
              /\ d # NoName =>
                    /\ d \notin taken
                    /\ failedDir' = Put(failedDir, d, place'.src)
                    /\ staging' = IF place'.op = "move" THEN staging \ {place'.src}
                                  ELSE staging]_vars

\* a call raised: the name and every candidate are taken, the last of them
\* by a file that an earlier call put there
C9_Witness ==
    /\ place.op \in {"move", "copy"}
    /\ place.dest = NoName
    /\ place.name \in DOMAIN failedDir
    /\ failedDir[Cand(place.name, CollisionCap - 1)] # 0

\* C10: for any sequence of upserts the catalog holds at most one row per
\* rel_path, and an upsert for a rel_path that has a row returns that row's
\* guid, not the incoming record's, and leaves the number of rows as it was.
C10_UpsertKeepsIdentity ==
    /\ [](\A r1, r2 \in pending : r1.rel_path = r2.rel_path => r1 = r2)
    /\ [](\A r1, r2 \in photos : r1.rel_path = r2.rel_path => r1 = r2)
    /\ [][ups' # ups =>
            /\ \E r \in RowAt(pending', ups'.rec.rel_path) : ups'.guid = r.guid
            /\ \A ex \in RowAt(pending, ups'.rec.rel_path) :
                  /\ ups'.guid = ex.guid
                  /\ ups'.guid # ups'.rec.guid
                  /\ Cardinality(pending') = Cardinality(pending)
                  /\ {r.guid : r \in pending'} = {r.guid : r \in pending}]_vars

\* the same rel_path was upserted again and the first guid came back
C10_Witness ==
    /\ ups.op = "upsert"
    /\ ups.n >= 2
    /\ ups.had # {}
    /\ \A ex \in ups.had : ups.guid = ex.guid /\ ex.guid \in NewGuids
    /\ ups.guid # ups.rec.guid

\* C11: an upsert for a rel_path that has a row leaves that row's rating as
\* it was, whatever its value in 0..3 and whatever the incoming record; a
\* newly inserted row gets rating 0; no other row's rating changes.
C11_UpsertKeepsRating ==
    [][ups' # ups =>
          /\ \A ex \in pending :
                \E r \in pending' : /\ r.rel_path = ex.rel_path
                                    /\ r.rating = ex.rating
          /\ RowAt(pending, ups'.rec.rel_path) = {} =>
                \A r \in RowAt(pending', ups'.rec.rel_path) : r.rating = 0]_vars

\* a row rated 3 was upserted again with another date and is still rated 3
C11_Witness ==
    /\ ups.op = "upsert"
    /\ \E ex \in ups.had : /\ ex.rating = MaxRating
                           /\ ex.dt # ups.rec.dt
    /\ \A r \in RowAt(pending, ups.rec.rel_path) :
          r.rating = MaxRating /\ r.dt = ups.rec.dt

(* ==================== claims: replace-by-name ========================= *)
\* the stem of staged file i is the guid of a row of the catalog
NamesRow(i) == \E r \in pending : r.guid = GuidFromFilename(items[i].name)

KeyOf(r) == [guid |-> r.guid, rel_path |-> r.rel_path]

\* C12: a staged file whose stem is the guid of an existing row overwrites
\* the library file at that row's rel_path and both derivatives of the guid
\* are deleted; when the item then commits, both derivatives have been
\* generated anew, the rows' guids and rel_paths are as before, and there is
\* no new row and no library path other than the row's.
C12_ReplaceByName ==
    [][/\ (Ingest /\ pc = "loop" /\ idx <= Len(items) /\ NamesRow(idx)) =>
             \E ex \in RowOf(pending, GuidFromFilename(items[idx].name)) :
                /\ library' = Put(library, ex.rel_path, idx)
                /\ thumb'[ex.guid] = 0 /\ mid'[ex.guid] = 0
                /\ photos' = photos
                /\ cur'.path = "replace" /\ cur'.rel = ex.rel_path
       /\ (Ingest /\ pc = "derived" /\ cur.path = "replace" /\ pc' # "failed") =>
             /\ cur.guid = GuidFromFilename(items[idx].name)
             /\ library'[cur.rel] = idx
             /\ DOMAIN library' = DOMAIN before.library \cup {cur.rel}
             /\ thumb'[cur.guid] = JobTime /\ mid'[cur.guid] = JobTime
             /\ {KeyOf(r) : r \in photos'} = {KeyOf(r) : r \in before.photos}
             /\ \E r \in photos' : r.guid = cur.guid /\ r.rel_path = cur.rel
      ]_vars

\* a file replaced a row's library file by name, and the row had derivatives
C12_Witness ==
    \E k \in DOMAIN log :
        /\ log[k].path = "replace" /\ log[k].out = "ok"
        /\ library[log[k].rel] = log[k].of
        /\ thumb[log[k].guid] = JobTime /\ mid[log[k].guid] = JobTime
        /\ \E r \in photos : r.guid = log[k].guid /\ r.rel_path = log[k].rel

\* a value counts as extracted when it is not null and not empty
IsEmpty(x) == x \in {None, ""}

\* C13: in replace-by-name each of date, latitude, longitude, altitude,
\* camera make and comment of the stored record is the newly extracted
\* value when that is not null or empty, and the previous record's value
\* only when the new one is null or empty.
C13_MergePrefersNew ==
    call.op = "merged" =>
        \A f \in MergeFields :
            call.out[f] = IF IsEmpty(call.rec[f]) THEN call.existing[f]
                          ELSE call.rec[f]

(* ==================== claims: what a run reports ====================== *)
\* C14: the inserted_guids a run returns are exactly the guids of the rows
\* the run inserted that are in the catalog at that time: none of a row that
\* was updated or replaced by name, none of an import that was rolled back.
C14_InsertedGuidsExact ==
    Ingest /\ Returned =>
        inserted_guids = {r.guid : r \in {x \in photos : x.guid \in NewGuids}}

\* the ordinal n is one after which the counters are due
Due(n) ==
    \/ n = 1
    \/ n % (IF cfg.jobType = "validate" THEN ValidateProgressEvery
            ELSE ProgressEvery) = 0

\* C15: after the first processed item and after every item whose ordinal
\* is a multiple of 50 (200 in validate) the pipeline goes to the write of
\* the counters, whatever the item's outcome.
C15_ProgressAfterDueItem ==
    [][/\ cfg.exists
       /\ Len(log') = Len(log) + 1
       /\ Due(cnt'.processed)
       => pc' = "progress"]_vars

CounterFields == {"processed", "upserted", "thumbs_done", "mids_done", "errors"}

\* C16: no persisted counter of the job record ever decreases, across the
\* progress writes, the final write, the failure write and lost commits.
C16_CountersNeverDecrease ==
    [][\A f \in CounterFields : job'[f] >= job[f]]_vars

\* the final write came after a progress write and raised the counters
C16_Witness ==
    /\ Returned
    /\ job.finished_at
    /\ job.processed = 2
    /\ job.errors >= 1
    /\ job.upserted >= 1

(* ====================== claims: the retry wrapper ===================== *)
\* C18: every commit of the pipelines goes through the retry wrapper: an
\* item or a write is given up for lock contention only after the attempt
\* bound of lock errors in a row.
C18_CommitsAreRetried ==
    cur.fails = "locked" => cur.locks = Attempts

\* C17: commit_with_retry makes at most `attempts` (6 by default) commit
\* attempts and has a result after the last one; it returns true at the
\* first attempt that succeeds, false after the last consecutive lock error
\* (with a rollback after each), and re-raises any other error at once.
C17_RetryIsBounded ==
    /\ [](call.op = "commit_with_retry" =>
             /\ call.made <= call.attempts /\ call.attempts <= Attempts
             /\ call.made = call.attempts => call.result # None
             /\ call.result = "false" =>
                   call.made = call.attempts /\ call.rollbacks = call.attempts)
    /\ [][call' # call =>
             /\ call.result = None
             /\ call'.made = call.made + 1
             /\ call'.last = "ok" => call'.result = "true"
             /\ call'.last = "other" =>
                   call'.result = "raised" /\ call'.rollbacks = call.rollbacks
             /\ call'.last = "locked" =>
                   /\ call'.rollbacks = call.rollbacks + 1
                   /\ call'.result = IF call'.made = call.attempts THEN "false"
                                     ELSE None]_vars

\* the default bound: six lock errors in a row, six rollbacks, result false
C17_Witness ==
    /\ call.op = "commit_with_retry"
    /\ call.attempts = Attempts
    /\ call.made = Attempts /\ call.rollbacks = Attempts
    /\ call.result = "false"

(* ================= one call of enrich_photo_location ================== *)
\* config.py line 53: geocode_cache_cell_m
CellM == 100

\* the call's utc_now_iso(), and the stamp of an earlier call
Now == "t1"
Earlier == "t0"

\* utc_now_iso() in the n-th call of a sequence
Stamps == <<Now, "t2", "t3", "t4">>

NowAt(n) == IF n <= Len(Stamps) THEN Stamps[n] ELSE "late"

\* geocode.py line 261: (settings.geocode_provider or "").strip().lower()
NormProvider(p) ==
    CASE p \in {None, ""} -> ""
      [] p \in {"geonames", " GeoNames "} -> "geonames"
      [] OTHER -> p

\* geocode.py line 265: (settings.geocode_geonames_username or "").strip()
StripName(u) == IF u \in {None, "", " "} THEN "" ELSE u

\* geocode.py lines 87-100: _snap_to_grid for the sample coordinates with
\* cell_m = 100 (floor(lat / lat_step), floor(lon / lon_step))
LatBucket(lat) == IF lat \in {"48.8566", "48.8567"} THEN 54387 ELSE 0

LonBucket(lat, lon) ==
    CASE lon = "0.0" -> 0
      [] lon = "2.3522" /\ lat \in {"48.8566", "48.8567"} -> 1722
      [] OTHER -> 2618

\* a photo without cache key (geo_cache_key is null)
NoKey == <<>>

\* geocode.py lines 103-104: _cache_key
CacheKey(provider, cell_m, lat_bucket, lon_bucket) ==
    <<provider, cell_m, lat_bucket, lon_bucket>>

\* a key from a grid so fine that the two samples near 48.8566 fall apart
KeyForFinerGrid(provider, photo) ==
    CacheKey(provider, CellM,
             IF photo.gps_latitude = "48.8567" THEN 54388
             ELSE LatBucket(photo.gps_latitude),
             LonBucket(photo.gps_latitude, photo.gps_longitude))

KeyFor(provider, photo) ==
    CacheKey(provider, CellM, LatBucket(photo.gps_latitude),
             LonBucket(photo.gps_latitude, photo.gps_longitude))

\* a lookup rule that never returns to a photo that was looked up before
ShouldLookupOnlyNew(photo) ==
    /\ photo.gps_latitude # None /\ photo.gps_longitude # None
    /\ photo.geo_lookup_status = None

\* geocode.py lines 246-251: _should_lookup
ShouldLookup(photo) ==
    IF photo.gps_latitude = None \/ photo.gps_longitude = None THEN FALSE
    ELSE IF /\ photo.geo_lookup_status = "ok"
            /\ ~Falsy(photo.geo_country) /\ ~Falsy(photo.geo_city) THEN FALSE
    ELSE TRUE

\* geocode.py lines 255-266: the four early returns of enrich_photo_location
PassesGuards(settings, photo) ==
    IF ~settings.geocode_enabled THEN FALSE
    ELSE IF ~ShouldLookup(photo) THEN FALSE
    ELSE IF NormProvider(settings.geocode_provider) # "geonames" THEN FALSE
    ELSE IF StripName(settings.geocode_geonames_username) = "" THEN FALSE
    ELSE TRUE

SettingsValues ==
    [geocode_enabled : BOOLEAN,
     geocode_provider : {None, "geonames", " GeoNames ", "nominatim"},
     geocode_geonames_username : {None, " ", "demo"}]

\* models.py: the gps and geo columns of a photo
PhotoValues ==
    [gps_latitude : {None, "0.0", "48.8566", "48.8567"},
     gps_longitude : {None, "0.0", "2.3522"},
     geo_lookup_status : {None, "ok", "miss", "error"},
     geo_country : {None, "", "France"},
     geo_city : {None, "", "Paris"},
     geo_provider : {None}, geo_cache_key : {NoKey},
     geo_lookup_at : {Earlier}, geo_lookup_error : {None}]

ParisKey == CacheKey("geonames", CellM, 54387, 1722)
OriginKey == CacheKey("geonames", CellM, 0, 0)

\* models.py: ReverseGeocodeCache rows, by cache_key
CacheValues ==
    {Empty,
     ParisKey :> [country |-> "France", city |-> "Paris", hit_count |-> 1,
                  last_used_at |-> Earlier],
     OriginKey :> [country |-> None, city |-> None, hit_count |-> 1,
                   last_used_at |-> Earlier]}

\* what _lookup_provider_data does: a place, a place whose row has no
\* countryName, None, or one of the exceptions
Responses ==
    {"place", "bare_place", "empty", "http_error", "hourly_limit", "crash"}

Places == {"place", "bare_place"}

\* geocode.py lines 170-190: the fields of the result dict
ResultOf(resp) ==
    [country |-> IF resp = "place" THEN "France" ELSE None, city |-> "Paris"]

\* no earlier call in this sequence
NoPrev == [how |-> None]

InitEnrich ==
    /\ Quiet
    /\ \E settings \in SettingsValues, photo \in PhotoValues,
          cache \in CacheValues, halted \in BOOLEAN :
          call = [op |-> "enrich_photo_location", settings |-> settings,
                  photo |-> photo, was |-> photo.geo_lookup_status,
                  cache |-> cache, halted |-> halted, requests |-> 0,
                  done |-> FALSE, result |-> FALSE, how |-> None,
                  n |-> 1, left |-> 0, prev |-> NoPrev]

Enriching == call.op = "enrich_photo_location" /\ ~call.done

\* geocode.py lines 255-266: return False
EnrichReturnsFalse ==
    /\ Enriching
    /\ ~PassesGuards(call.settings, call.photo)
    /\ call' = [call EXCEPT !.done = TRUE, !.result = FALSE,
                             !.how = "false"]
    /\ UNCHANGED quietVars

\* geocode.py lines 268-273: the quota halt is on
EnrichHalted ==
    /\ Enriching
    /\ PassesGuards(call.settings, call.photo)
    /\ call.halted
    /\ call' = [call EXCEPT
                  !.photo = [@ EXCEPT !.geo_provider = "geonames",
                                      !.geo_lookup_at = NowAt(call.n),
                                      !.geo_lookup_status = "error",
                                      !.geo_lookup_error = "throttled"],
                  !.done = TRUE, !.result = TRUE, !.how = "halted"]
    /\ UNCHANGED quietVars

\* geocode.py lines 275-287: the grid cell is in the cache
EnrichCached ==
    /\ Enriching
    /\ PassesGuards(call.settings, call.photo)
    /\ ~call.halted
    /\ \E key \in {KeyFor("geonames", call.photo)} :
          /\ key \in DOMAIN call.cache
          /\ call' = [call EXCEPT
                        !.photo = [@ EXCEPT
                                     !.geo_country = call.cache[key].country,
                                     !.geo_city = call.cache[key].city,
                                     !.geo_provider = "geonames",
                                     !.geo_cache_key = key,
                                     !.geo_lookup_at = NowAt(call.n),
                                     !.geo_lookup_status = "ok",
                                     !.geo_lookup_error = None],
                        !.cache = [@ EXCEPT ![key] =
                                     [@ EXCEPT !.last_used_at = NowAt(call.n),
                                               !.hit_count = @ + 1]],
                        !.done = TRUE, !.result = TRUE, !.how = "cached"]
    /\ UNCHANGED quietVars

\* the photo after a lookup that ended with `status` and `error`
Stamped(photo, key, status, error) ==
    [photo EXCEPT !.geo_provider = "geonames", !.geo_cache_key = key,
                  !.geo_lookup_at = NowAt(call.n),
                  !.geo_lookup_status = status,
                  !.geo_lookup_error = error]

\* geocode.py lines 289-354: the provider is asked
EnrichProvider ==
    /\ Enriching
    /\ PassesGuards(call.settings, call.photo)
    /\ ~call.halted
    /\ \E key \in {KeyFor("geonames", call.photo)}, resp \in Responses :
          /\ key \notin DOMAIN call.cache
          /\ call' = [call EXCEPT
                        !.requests = @ + 1,
                        !.halted = @ \/ resp = "hourly_limit",
                        !.photo =
                           CASE resp \in Places ->
                                  [Stamped(@, key, "ok", None) EXCEPT
                                     !.geo_country = ResultOf(resp).country,
                                     !.geo_city = ResultOf(resp).city]
                             [] resp = "empty" -> Stamped(@, key, "miss", None)
                             [] OTHER -> Stamped(@, key, "error", resp),
                        !.cache =
                           IF resp \in Places
                           THEN Put(@, key,
                                    [country |-> ResultOf(resp).country,
                                     city |-> ResultOf(resp).city,
                                     hit_count |-> 1,
                                     last_used_at |-> NowAt(call.n)])
                           ELSE @,
                        !.done = TRUE, !.result = TRUE, !.how = resp]
    /\ UNCHANGED quietVars

NextEnrich ==
    \/ EnrichReturnsFalse
    \/ EnrichHalted
    \/ EnrichCached
    \/ EnrichProvider

SpecEnrich == InitEnrich /\ [][NextEnrich]_vars

(* ============ enrich_photo_location called again and again ============ *)
\* photos that were never looked up
FreshPhotos ==
    {p \in PhotoValues : /\ p.geo_lookup_status = None
                         /\ p.geo_country = None /\ p.geo_city = None}

GoodSettings ==
    {st \in SettingsValues : /\ st.geocode_enabled
                             /\ st.geocode_provider = " GeoNames "
                             /\ st.geocode_geonames_username = "demo"}

InitEnrichSeq ==
    /\ Quiet
    /\ \E settings \in GoodSettings, photo \in FreshPhotos,
          cache \in CacheValues, halted \in BOOLEAN :
          call = [op |-> "enrich_photo_location", settings |-> settings,
                  photo |-> photo, was |-> photo.geo_lookup_status,
                  cache |-> cache, halted |-> halted, requests |-> 0,
                  done |-> FALSE, result |-> FALSE, how |-> None,
                  n |-> 1, left |-> MaxCalls - 1, prev |-> NoPrev]

\* validate.py lines 104-113, ingest.py line 352: the caller commits and
\* later calls enrich_photo_location for the same photo or for another one;
\* the halt window may have run out in between
EnrichNext ==
    /\ call.op = "enrich_photo_location" /\ call.done
    /\ call.left > 0
    /\ \E photo \in {call.photo} \cup FreshPhotos,
          halted \in {call.halted, FALSE} :
          call' = [call EXCEPT
                     !.prev = [how |-> call.how, result |-> call.result,
                               photo |-> call.photo, cache |-> call.cache,
                               requests |-> call.requests],
                     !.photo = photo, !.was = photo.geo_lookup_status,
                     !.halted = halted, !.done = FALSE, !.result = FALSE,
                     !.how = None, !.n = @ + 1, !.left = @ - 1]
    /\ UNCHANGED quietVars

NextEnrichSeq ==
    \/ EnrichReturnsFalse
    \/ EnrichHalted
    \/ EnrichCached
    \/ EnrichProvider
    \/ EnrichNext

SpecEnrichSeq == InitEnrichSeq /\ [][NextEnrichSeq]_vars

(* ======== a photo upserted again between two calls of the lookup ====== *)
\* ingest.py lines 345-352 (291-296 on the replace-by-name path): upsert_photo
\* for the rel_path of a photo that has a row, then enrich_photo_location on
\* that row.  The SET list of the upsert (core/db.py lines 98-111) takes the
\* record's coordinates and has none of the geo columns.
UpsertAndEnrich ==
    /\ call.op = "enrich_photo_location" /\ call.done
    /\ call.left > 0
    /\ \E lat \in {None, "0.0", "48.8566", "48.8567"},
          lon \in {None, "0.0", "2.3522"},
          halted \in {call.halted, FALSE} :
          call' = [call EXCEPT
                     !.prev = [how |-> call.how, result |-> call.result,
                               photo |-> call.photo, cache |-> call.cache,
                               requests |-> call.requests],
                     !.photo = [@ EXCEPT !.gps_latitude = lat,
                                         !.gps_longitude = lon],
                     !.was = call.photo.geo_lookup_status,
                     !.halted = halted, !.done = FALSE, !.result = FALSE,
                     !.how = None, !.n = @ + 1, !.left = @ - 1]
    /\ UNCHANGED quietVars

NextReupsert ==
    \/ EnrichReturnsFalse
    \/ EnrichHalted
    \/ EnrichCached
    \/ EnrichProvider
    \/ UpsertAndEnrich

SpecReupsert == InitEnrichSeq /\ [][NextReupsert]_vars

(* ============ provider lookups of several threads, in time ============ *)
\* geocode.py line 52: the least cooldown, in seconds
MinCooldown == 60

Threads == {"a", "b"}

\* geocode.py line 37: max(0.0, float(geocode_min_interval_s))
MinIntervalS(gs) == IF gs.min_interval > 0 THEN gs.min_interval ELSE 0

\* a cooldown as it is configured, taken without the floor of 60 s
CooldownAsConfigured(gs) == gs.cooldown

\* geocode.py line 52: max(60.0, float(geocode_hourly_limit_cooldown_s))
CooldownS(gs) == IF gs.cooldown > MinCooldown THEN gs.cooldown ELSE MinCooldown

\* geocode.py lines 57-59: _geonames_is_halted
IsHalted(clock, halt_until) == clock < halt_until

\* config.py lines 54-58: min interval, cooldown, and whether the fallback
\* radius is larger than the primary one
ThrottleSettings ==
    [min_interval : {-1, 0, 2}, cooldown : {10, 90}, fallback : BOOLEAN]

\* the clock moves by a second or by a minute
Advances == {1, MinCooldown}

NoThread == [pc |-> "idle", wake |-> 0, out |-> None]

\* geocode.py lines 29-31: the globals at import time; a photo that needs a
\* lookup and whose grid cell is not cached is given to each thread
InitThrottle ==
    /\ Quiet
    /\ \E gs \in ThrottleSettings :
          call = [op |-> "lookups", gs |-> gs, clock |-> 0, steps |-> 0,
                  left |-> MaxLookups,
                  next_at |-> 0, halt_until |-> 0, lock |-> None,
                  th |-> [t \in Threads |-> NoThread],
                  nreq |-> 0, last_req |-> 0, req_by |-> None,
                  npass |-> 0, first_pass |-> 0, last_pass |-> 0]

Looking == call.op = "lookups"

\* time.monotonic() goes on
Tick ==
    /\ Looking
    /\ call.steps < MaxSteps
    /\ \E d \in Advances :
          call' = [call EXCEPT !.clock = @ + d, !.steps = @ + 1]
    /\ UNCHANGED quietVars

\* geocode.py lines 268-273: a caller with a photo to look up enters
\* enrich_photo_location, which asks _geonames_is_halted
HaltCheck(t) ==
    /\ Looking
    /\ call.th[t].pc = "idle" /\ call.left > 0
    /\ call.lock = None
    /\ call' = [call EXCEPT
                  !.left = @ - 1,
                  !.th[t] = IF IsHalted(call.clock, call.halt_until)
                            THEN [@ EXCEPT !.pc = "idle", !.out = "halted"]
                            ELSE [@ EXCEPT !.pc = "throttle", !.out = None]]
    /\ UNCHANGED quietVars

\* geocode.py lines 37-39: no interval, no wait
ThrottleOff(t) ==
    /\ Looking
    /\ call.th[t].pc = "throttle"
    /\ MinIntervalS(call.gs) <= 0
    /\ call' = [call EXCEPT !.th[t].pc = "request"]
    /\ UNCHANGED quietVars

\* a throttle that lets a thread through without moving the next-allowed time
LetThroughNoAdvance(c, t, now) ==
    [c EXCEPT !.lock = None,
              !.th[t].pc = "request",
              !.npass = @ + 1,
              !.first_pass = IF c.npass = 0 THEN now ELSE @,
              !.last_pass = now]

\* the throttle lets thread t through at the instant `now`
LetThrough(c, t, now) ==
    [c EXCEPT !.next_at = now + MinIntervalS(c.gs),
              !.lock = None,
              !.th[t].pc = "request",
              !.npass = @ + 1,
              !.first_pass = IF c.npass = 0 THEN now ELSE @,
              !.last_pass = now]

\* geocode.py lines 41-47: the lock is taken, the wait computed
ThrottleEnter(t) ==
    /\ Looking
    /\ call.th[t].pc = "throttle"
    /\ MinIntervalS(call.gs) > 0
    /\ call.lock = None
    /\ call' = IF call.next_at - call.clock > 0
               THEN [call EXCEPT !.lock = t, !.th[t].pc = "sleep",
                                 !.th[t].wake = call.next_at]
               ELSE LetThrough(call, t, call.clock)
    /\ UNCHANGED quietVars

\* geocode.py lines 45-47: time.sleep(wait_s) is over, the lock still held
ThrottleWake(t) ==
    /\ Looking
    /\ call.th[t].pc = "sleep"
    /\ call.clock >= call.th[t].wake
    /\ call' = LetThrough(call, t, call.clock)
    /\ UNCHANGED quietVars

\* what one query of the provider gives
QueryResults == {"place", "empty", "hourly_limit", "error"}

\* the state after thread t has sent a query that was answered with r;
\* `last` tells that no further query follows an empty answer
Queried(c, t, r, last) ==
    [c EXCEPT !.nreq = @ + 1, !.last_req = c.clock, !.req_by = t,
              !.th[t] =
                 CASE r = "place" -> [@ EXCEPT !.pc = "idle", !.out = "ok"]
                   [] r = "empty" /\ last ->
                        [@ EXCEPT !.pc = "idle", !.out = "miss"]
                   [] r = "empty" -> [@ EXCEPT !.pc = "fallback"]
                   [] r = "hourly_limit" -> [@ EXCEPT !.pc = "mark"]
                   [] OTHER -> [@ EXCEPT !.pc = "idle", !.out = "error"]]

\* geocode.py lines 206-208: the query at the primary radius
PrimaryRequest(t) ==
    /\ Looking
    /\ call.th[t].pc = "request"
    /\ \E r \in QueryResults :
          call' = Queried(call, t, r, ~call.gs.fallback)
    /\ UNCHANGED quietVars

\* geocode.py lines 210-211: the query at the fallback radius
FallbackRequest(t) ==
    /\ Looking
    /\ call.th[t].pc = "fallback"
    /\ \E r \in QueryResults :
          call' = Queried(call, t, r, TRUE)
    /\ UNCHANGED quietVars

\* geocode.py lines 50-54 and 307-309: _mark_geonames_hourly_limit_hit
MarkHalt(t) ==
    /\ Looking
    /\ call.th[t].pc = "mark"
    /\ call.lock = None
    /\ call' = [call EXCEPT
                  !.halt_until =
                     IF call.clock + CooldownS(call.gs) > @
                     THEN call.clock + CooldownS(call.gs) ELSE @,
                  !.th[t] = [@ EXCEPT !.pc = "idle", !.out = "error"]]
    /\ UNCHANGED quietVars

NextThrottle ==
    \/ Tick
    \/ \E t \in Threads : HaltCheck(t)
    \/ \E t \in Threads : ThrottleOff(t)
    \/ \E t \in Threads : ThrottleEnter(t)
    \/ \E t \in Threads : ThrottleWake(t)
    \/ \E t \in Threads : PrimaryRequest(t)
    \/ \E t \in Threads : FallbackRequest(t)
    \/ \E t \in Threads : MarkHalt(t)

SpecThrottle == InitThrottle /\ [][NextThrottle]_vars

(* ==================== calls of ensure_derivatives ===================== *)
\* As in ShouldRegen, an output mtime of 0 is a missing file and a
\* source_mtime of 0 is None; real times are 1 .. MaxWall.
Times == 1..MaxWall

\* derivatives.py lines 111-115: need_thumb and need_mid
NeedThumb(c, source_mtime) == ShouldRegen(c.thumb, source_mtime)

NeedMid(c, source_mtime, repair) ==
    \/ ShouldRegen(c.mid, source_mtime)
    \/ repair /\ ~c.mid_exif

\* no call of this sequence wrote the file
NotWritten == 0 - 1

\* the derivative files of one guid before the first call; the mid file has
\* an EXIF block or not, the source too
InitDeriv ==
    /\ Quiet
    /\ \E clock \in Times, th \in 0..MaxWall, md \in 0..MaxWall,
          mid_exif \in BOOLEAN, src_exif \in BOOLEAN :
          /\ th <= clock /\ md <= clock
          /\ md = 0 => ~mid_exif
          /\ call = [op |-> "ensure_derivatives", clock |-> clock,
                     thumb |-> th, mid |-> md, mid_exif |-> mid_exif,
                     src_exif |-> src_exif,
                     t_against |-> NotWritten, m_against |-> NotWritten,
                     n |-> 0, source_mtime |-> 0, repair |-> FALSE,
                     returned |-> FALSE, opened |-> FALSE,
                     thumb_created |-> FALSE, mid_created |-> FALSE,
                     prev |-> [n |-> 0]]

Deriving == call.op = "ensure_derivatives"

\* the call that ended, as the next call remembers it
Ended(c) ==
    [n |-> c.n, source_mtime |-> c.source_mtime, repair |-> c.repair,
     returned |-> c.returned, thumb |-> c.thumb, mid |-> c.mid]

\* the wall clock goes on
DerivTick ==
    /\ Deriving
    /\ call.clock < MaxWall
    /\ call' = [call EXCEPT !.clock = @ + 1]
    /\ UNCHANGED quietVars

\* derivatives.py lines 108-139: a call that returns; the files it writes
\* get the wall-clock time as their mtime
DerivCall ==
    /\ Deriving
    /\ call.n < MaxDerivCalls
    /\ \E source_mtime \in 0..MaxWall, repair \in BOOLEAN :
        \E nt \in {NeedThumb(call, source_mtime)},
          nm \in {NeedMid(call, source_mtime, repair)} :
          call' = [call EXCEPT
                     !.n = @ + 1, !.prev = Ended(call),
                     !.source_mtime = source_mtime, !.repair = repair,
                     !.returned = TRUE, !.opened = nt \/ nm,
                     !.thumb_created = nt, !.mid_created = nm,
                     !.thumb = IF nt THEN call.clock ELSE @,
                     !.mid = IF nm THEN call.clock ELSE @,
                     !.mid_exif = IF nm THEN call.src_exif ELSE @,
                     !.t_against = IF nt THEN source_mtime ELSE @,
                     !.m_against = IF nm THEN source_mtime ELSE @]
    /\ UNCHANGED quietVars

\* derivatives.py line 119: Image.open(source_path) raises, nothing is
\* written
DerivRaises ==
    /\ Deriving
    /\ call.n < MaxDerivCalls
    /\ \E source_mtime \in 0..MaxWall, repair \in BOOLEAN :
          /\ NeedThumb(call, source_mtime) \/ NeedMid(call, source_mtime, repair)
          /\ call' = [call EXCEPT
                        !.n = @ + 1, !.prev = Ended(call),
                        !.source_mtime = source_mtime, !.repair = repair,
                        !.returned = FALSE, !.opened = TRUE,
                        !.thumb_created = FALSE, !.mid_created = FALSE]
    /\ UNCHANGED quietVars

NextDeriv ==
    \/ DerivTick
    \/ DerivCall
    \/ DerivRaises

SpecDeriv == InitDeriv /\ [][NextDeriv]_vars

(* ================== the grid cell of a coordinate ===================== *)
\* Coordinates are whole numbers of 1/111320 degree (a metre of latitude),
\* so that lat / lat_step is lat_u / cell; cos(lat) is taken in thousandths.
MetresPerDegree == 111320
MinCell == 10
CosFloor == 100

\* math.floor toward zero, as int() alone would do
FloorTowardZero(num, den) ==
    IF num < 0 THEN 0 - ((0 - num) \div den) ELSE num \div den

\* geocode.py lines 97-98: int(math.floor(x / step))
Floor(num, den) == num \div den

Sixty == 60 * MetresPerDegree
NearPole == 89 * MetresPerDegree

\* geocode.py lines 91-93: cos(radians(lat)) in thousandths for the sample
\* latitudes (near 0, near 60, near 89 degrees), not below 0.1
CosThousandths(lat_u) ==
    CASE lat_u < Sixty - 1000 -> 1000
      [] lat_u < NearPole - 1000 -> 500
      [] OTHER -> CosFloor

\* geocode.py lines 87-100: _snap_to_grid (lat_bucket, lon_bucket)
SnapToGrid(lat_u, lon_u, cell_m) ==
    LET safe_cell_m == IF cell_m > MinCell THEN cell_m ELSE MinCell
    IN  [lat_bucket |-> Floor(lat_u, safe_cell_m),
         lon_bucket |-> Floor(lon_u * CosThousandths(lat_u),
                              safe_cell_m * 1000)]

\* geocode.py lines 275-279: the cache key of a coordinate
KeyOfPoint(provider, cell_m, pt) ==
    LET g == SnapToGrid(pt.lat_u, pt.lon_u, cell_m)
    IN  CacheKey(provider, cell_m, g.lat_bucket, g.lon_bucket)

LatSamples ==
    {b + d : b \in {0, Sixty}, d \in {0 - 1, 0, 9, 10, 99, 100}}
       \cup {NearPole}

LonSamples == {0 - 100, 0 - 1, 0, 99, 100, 199, 200}

Points == [lat_u : LatSamples, lon_u : LonSamples]

CellSizes == {5, 100}

InitGrid ==
    /\ Quiet
    /\ \E a \in Points, b \in Points, cell_m \in CellSizes :
          call = [op |-> "cache_key", provider |-> "geonames",
                  cell_m |-> cell_m, a |-> a, b |-> b,
                  key_a |-> NoKey, key_b |-> NoKey]

Keying == call.op = "cache_key"

\* enrich_photo_location computes the key of the first photo
KeyFirst ==
    /\ Keying /\ call.key_a = NoKey
    /\ call' = [call EXCEPT
                  !.key_a = KeyOfPoint(call.provider, call.cell_m, call.a)]
    /\ UNCHANGED quietVars

\* enrich_photo_location computes the key of the second photo
KeySecond ==
    /\ Keying /\ call.key_b = NoKey
    /\ call' = [call EXCEPT
                  !.key_b = KeyOfPoint(call.provider, call.cell_m, call.b)]
    /\ UNCHANGED quietVars

NextGrid ==
    \/ KeyFirst
    \/ KeySecond

SpecGrid == InitGrid /\ [][NextGrid]_vars

(* ------------- the job's session around the geocode lookup ------------ *)
\* The session of one job thread (core/db.py line 73: autoflush off): ORM
\* attribute changes stay in memory until a commit (dirty); a statement
\* executed through the session, as upsert_photo does, opens the write
\* transaction of the store at once (lock).  Commit and rollback end both.
JobKinds == {"validate", "ingest"}

\* enrich_photo_location as the job sees it: "unchanged" returns FALSE at
\* the guards (geocode.py lines 255-266); "halted" and "cached" change the
\* row without a request (268-287); "request" goes to the provider (289-291)
EnrichOutcomes == {"unchanged", "halted", "cached", "request"}

InitSession ==
    /\ Quiet
    /\ \E k \in JobKinds :
          call = [op |-> "session", job |-> k, pc |-> "item",
                  left |-> MaxPhotos, dirty |-> FALSE, lock |-> FALSE,
                  in_flight |-> FALSE, changed |-> FALSE, nreq |-> 0,
                  made |-> 0, stored |-> 0, dropped |-> 0]

InSession == call.op = "session"

\* validate.py lines 73-80: the next photo of the query, its source exists
SessionTakeRow ==
    /\ InSession /\ call.job = "validate"
    /\ call.pc = "item" /\ call.left > 0
    /\ call' = [call EXCEPT !.pc = "enrich", !.left = @ - 1,
                            !.changed = FALSE]
    /\ UNCHANGED quietVars

\* ingest.py lines 291 and 347, core/db.py lines 89-123: upsert_photo executes
\* the INSERT .. ON CONFLICT statement in the job's session
SessionUpsert ==
    /\ InSession /\ call.job = "ingest"
    /\ call.pc = "item" /\ call.left > 0
    /\ call' = [call EXCEPT !.pc = "enrich", !.left = @ - 1,
                            !.changed = FALSE, !.lock = TRUE]
    /\ UNCHANGED quietVars

\* geocode.py lines 255-287: the call returns without a request
SessionEnrichLocal ==
    /\ InSession /\ call.pc = "enrich"
    /\ \E how \in EnrichOutcomes \ {"request"} :
          call' = [call EXCEPT
                     !.pc = "after",
                     !.changed = how # "unchanged",
                     !.dirty = @ \/ how # "unchanged",
                     !.made = IF how # "unchanged" THEN @ + 1 ELSE @]
    /\ UNCHANGED quietVars

\* geocode.py lines 289-291 and 206: the request leaves for the provider
SessionRequest ==
    /\ InSession /\ call.pc = "enrich"
    /\ call' = [call EXCEPT !.pc = "request", !.in_flight = TRUE,
                            !.nreq = @ + 1]
    /\ UNCHANGED quietVars

\* geocode.py lines 292-354: whatever the answer, the row is changed and the
\* call returns TRUE
SessionResponse ==
    /\ InSession /\ call.pc = "request"
    /\ call' = [call EXCEPT !.pc = "after", !.in_flight = FALSE,
                            !.changed = TRUE, !.dirty = TRUE, !.made = @ + 1]
    /\ UNCHANGED quietVars

\* the session after a commit that wrote (TRUE) or a rollback (FALSE)
Ended_Transaction(c, wrote) ==
    [c EXCEPT !.pc = "progress", !.dirty = FALSE, !.lock = FALSE,
              !.stored = IF c.changed /\ wrote THEN @ + 1 ELSE @,
              !.dropped = IF c.changed /\ ~wrote THEN @ + 1 ELSE @]

\* the commit of validate left for later
AfterEnrichNoCommit(c, n) == [c EXCEPT !.pc = "progress"]

\* validate.py lines 107-110: commit_with_retry when the call changed the
\* row; n lock errors, each followed by a rollback
AfterValidateEnrich(c, n) ==
    IF c.changed THEN Ended_Transaction(c, CommitPersists(n))
    ELSE [c EXCEPT !.pc = "progress"]

SessionValidateCommit ==
    /\ InSession /\ call.job = "validate" /\ call.pc = "after"
    /\ \E n \in CommitTries : call' = AfterValidateEnrich(call, n)
    /\ UNCHANGED quietVars

\* ingest.py lines 313 and 369: session.commit() after the derivatives, or
\* the rollback of the except branch (lines 370-374)
SessionIngestCommit ==
    /\ InSession /\ call.job = "ingest" /\ call.pc = "after"
    /\ \E wrote \in BOOLEAN : call' = Ended_Transaction(call, wrote)
    /\ UNCHANGED quietVars

\* validate.py lines 115-121, ingest.py lines 410-416: the counters are set
\* on the job row and committed at once
SessionProgress ==
    /\ InSession /\ call.pc = "progress"
    /\ call' = [call EXCEPT !.pc = IF call.left > 0 THEN "item" ELSE "done"]
    /\ UNCHANGED quietVars

NextSession ==
    \/ SessionTakeRow
    \/ SessionUpsert
    \/ SessionEnrichLocal
    \/ SessionRequest
    \/ SessionResponse
    \/ SessionValidateCommit
    \/ SessionIngestCommit
    \/ SessionProgress

SpecSession == InitSession /\ [][NextSession]_vars

(* ========================= claims: validate =========================== *)
Validate == cfg.exists /\ cfg.jobType = "validate"

\* C19: a validate job leaves the library files and the staging and
\* quarantine trees as they are, inserts and deletes no row and changes no
\* guid or rel_path; a row whose source file is missing costs exactly one
\* error and gets no derivative work and no geocode work.
C19_ValidateTouchesNoSource ==
    [][Validate =>
          /\ library' = library /\ staging' = staging /\ failedDir' = failedDir
          /\ photos' = photos /\ pending' = pending
          /\ (pc = "loop" /\ idx <= Len(rows)
                 /\ rows[idx].rel_path \notin DOMAIN library) =>
                /\ cnt' = [cnt EXCEPT !.processed = @ + 1, !.errors = @ + 1]
                /\ thumb' = thumb /\ mid' = mid
                /\ pc' = "loop" /\ idx' = idx + 1]_vars

\* a validate job met a row without source file and repaired another row
C19_Witness ==
    /\ Validate
    /\ \E k, j \in DOMAIN log :
          /\ log[k].out = "missing"
          /\ log[j].out = "ok" /\ thumb[log[j].guid] = JobTime
    /\ cnt.errors = 1

(* ========================= claims: geocoder =========================== *)
Populated(x) == x # None /\ x # ""

\* the photo needs a lookup and the settings allow one
Eligible(settings, photo) ==
    /\ settings.geocode_enabled
    /\ NormProvider(settings.geocode_provider) = "geonames"
    /\ StripName(settings.geocode_geonames_username) # ""
    /\ photo.gps_latitude # None /\ photo.gps_longitude # None
    /\ ~(/\ photo.geo_lookup_status = "ok"
         /\ Populated(photo.geo_country) /\ Populated(photo.geo_city))

\* C20: enrich_photo_location attempts a lookup (returns true and stamps the
\* photo with the time and status of this call) exactly when geocoding is
\* enabled, the provider is geonames with a user name, the photo has latitude
\* and longitude and is not already ok with country and city; otherwise it
\* returns false, asks the provider nothing and leaves photo and cache as they
\* were.  A photo with status miss or error is attempted again.
C20_LookupIffEligible ==
    [][(Enriching /\ call'.done) =>
          IF Eligible(call.settings, call.photo)
          THEN /\ call'.result
               /\ call'.photo.geo_lookup_at = NowAt(call.n)
               /\ call'.photo.geo_lookup_status \in {"ok", "miss", "error"}
          ELSE /\ ~call'.result
               /\ call'.requests = call.requests
               /\ call'.photo = call.photo
               /\ call'.cache = call.cache]_vars

\* a photo whose earlier lookup was a miss was given to the provider again
C20_Witness ==
    /\ call.op = "enrich_photo_location" /\ call.done /\ call.result
    /\ call.was = "miss" /\ call.requests = 1
    /\ call.photo.geo_lookup_status = "ok"
    /\ call.photo.geo_country = "France" /\ call.photo.geo_city = "Paris"
    /\ call.photo.geo_cache_key = ParisKey

\* the call now running is for the photo the call before it left behind
SamePhotoAgain == call.n > 1 /\ call.photo = call.prev.photo

\* C21: once a call has set the photo's status to ok, the next call for the
\* same photo (same coordinates, same settings) returns false, asks the
\* provider nothing and changes neither the photo nor the cache.
C21_OkIsFinal ==
    [][(/\ Enriching /\ call'.done
        /\ SamePhotoAgain
        /\ call.prev.result /\ call.photo.geo_lookup_status = "ok") =>
          /\ ~call'.result
          /\ call'.requests = call.requests
          /\ call'.photo = call.photo
          /\ call'.cache = call.cache]_vars

\* both photos have coordinates, in the same grid cell
SameCell(p, q) ==
    /\ p.gps_latitude # None /\ p.gps_longitude # None
    /\ q.gps_latitude # None /\ q.gps_longitude # None
    /\ LatBucket(p.gps_latitude) = LatBucket(q.gps_latitude)
    /\ LonBucket(p.gps_latitude, p.gps_longitude)
          = LonBucket(q.gps_latitude, q.gps_longitude)

\* the two calls before now were for photos of one grid cell, the first one
\* found the cache empty and got a place from the provider
TwoInOneCell ==
    /\ call.op = "enrich_photo_location" /\ call.done /\ call.n = 2
    /\ call.prev.how \in Places
    /\ call.prev.requests = 1
    /\ DOMAIN call.prev.cache = {call.prev.photo.geo_cache_key}
    /\ call.was = None
    /\ SameCell(call.photo, call.prev.photo)

\* C22: two photos of one grid cell geocoded one after the other, starting
\* with an empty cache and a provider that has a place: one provider lookup
\* in all, one cache entry, with hit_count 1 after the first photo and 2
\* after the second.
C22_OneLookupPerCell ==
    TwoInOneCell =>
        /\ call.requests = 1
        /\ DOMAIN call.cache = DOMAIN call.prev.cache
        /\ \A key \in DOMAIN call.cache :
              /\ call.prev.cache[key].hit_count = 1
              /\ call.cache[key].hit_count = 2

\* the second photo of the cell was resolved from the cache
C22_Witness ==
    /\ TwoInOneCell
    /\ call.how = "cached" /\ call.result
    /\ call.photo.geo_lookup_status = "ok"
    /\ call.photo.geo_cache_key = ParisKey
    /\ call.photo.gps_latitude # call.prev.photo.gps_latitude

\* the cache has an entry for the grid cell of the photo of this call
CellIsCached ==
    /\ call.photo.gps_latitude # None /\ call.photo.gps_longitude # None
    /\ KeyFor("geonames", call.photo) \in DOMAIN call.cache

\* this step resolves the photo from the cache entry `key`
FromCache(key) ==
    /\ call'.result
    /\ call'.requests = call.requests
    /\ call'.photo.geo_lookup_status = "ok"
    /\ call'.photo.geo_country = call.cache[key].country
    /\ call'.photo.geo_city = call.cache[key].city
    /\ call'.cache[key].hit_count = call.cache[key].hit_count + 1
    /\ call'.cache[key].last_used_at = NowAt(call.n)

\* C23: a photo that needs a lookup and whose grid cell is in the cache is
\* resolved from the cache (fields applied with status ok, hit_count plus
\* one, last-used updated, true returned, no provider request), whether the
\* quota halt is on or not.
C23_CacheBeforeHalt ==
    [][(/\ Enriching /\ call'.done
        /\ Eligible(call.settings, call.photo) /\ CellIsCached) =>
          FromCache(KeyFor("geonames", call.photo))]_vars

\* C27: a call that returns true leaves the photo with the provider, the
\* cache key of the grid cell of its coordinates, the time of this call and
\* a status; an empty provider result gives status miss without error text.
C27_EveryAttemptStamps ==
    [][(Enriching /\ call'.done /\ call'.result) =>
          /\ call'.photo.geo_provider = "geonames"
          /\ call'.photo.geo_cache_key = KeyFor("geonames", call.photo)
          /\ call'.photo.geo_lookup_at = NowAt(call.n)
          /\ call'.photo.geo_lookup_status \in {"ok", "miss", "error"}
          /\ call'.how = "empty" =>
                /\ call'.photo.geo_lookup_status = "miss"
                /\ call'.photo.geo_lookup_error = None]_vars

(* ==================== claims: throttle and halt ======================= *)
\* this step sends a query to the provider
SendsQuery == Looking /\ call'.nreq = call.nreq + 1

\* C24: any two queries sent to the provider start at least min_interval
\* apart, the fallback-radius query after an empty primary-radius query
\* included.
C24_QueriesAreSpaced ==
    [][(SendsQuery /\ call.nreq >= 1) =>
          call'.last_req - call.last_req >= MinIntervalS(call.gs)]_vars

\* this step is the throttle letting a thread through
Passes == Looking /\ call'.npass = call.npass + 1

\* C25: under every interleaving the instants at which the throttle lets
\* successive calls through are at least min_interval apart, so N calls take
\* at least (N-1) * min_interval; with min_interval <= 0 no call waits and
\* the shared next-allowed time is never changed.
C25_ThrottleSpacesCalls ==
    /\ [](Looking /\ call.npass >= 1 =>
             call.last_pass - call.first_pass
                >= (call.npass - 1) * MinIntervalS(call.gs))
    /\ [][(Passes /\ call.npass >= 1) =>
             call'.last_pass - call.last_pass >= MinIntervalS(call.gs)]_vars
    /\ [][(Looking /\ call.gs.min_interval <= 0) =>
             /\ call'.next_at = call.next_at
             /\ call'.npass = call.npass
             /\ \A t \in Threads : call'.th[t].pc # "sleep"]_vars

\* two calls went through an active throttle, the second after a sleep
C25_Witness ==
    /\ Looking /\ call.gs.min_interval = 2
    /\ call.npass = 2
    /\ call.last_pass - call.first_pass = 2
    /\ \E t \in Threads : call.th[t].wake = 2

\* thread t enters enrich_photo_location in this step
Enters(t) ==
    /\ Looking /\ call.th[t].pc = "idle" /\ call'.left = call.left - 1
    /\ call'.th[t] # call.th[t]

\* thread t records the hourly limit in this step
Marks(t) == Looking /\ call.th[t].pc = "mark" /\ call'.th[t].pc # "mark"

\* C26: after a response that tells the hourly limit is exceeded the
\* halt-until time is at least 60 s ahead, and the configured cooldown ahead
\* when that is more, and it never moves back; a call made during the halt
\* window ends at once with status error and sends no query; a call made
\* after the window goes on to the provider.
C26_HaltWindow ==
    [][\A t \in Threads :
          /\ Looking => call'.halt_until >= call.halt_until
          /\ Marks(t) =>
                /\ call'.halt_until >= call.clock + MinCooldown
                /\ call'.halt_until >= call.clock + call.gs.cooldown
          /\ Enters(t) =>
                IF call.clock < call.halt_until
                THEN /\ call'.th[t].out = "halted"
                     /\ call'.th[t].pc = "idle"
                     /\ call'.nreq = call.nreq
                ELSE call'.th[t].pc = "throttle"]_vars

\* a call was made while the halt was on
C26_Witness ==
    /\ Looking
    /\ call.halt_until >= MinCooldown /\ call.clock < call.halt_until
    /\ call.nreq = 1
    /\ \E t \in Threads : call.th[t].out = "halted"

\* C32: once a lookup has found the hourly limit and set the halt, no thread
\* starts an outbound provider request until the halt has expired, whether
\* it had passed the halt test or was waiting in the throttle when the halt
\* was set.
C32_NoQueryWhileHalted ==
    [][SendsQuery => ~IsHalted(call.clock, call.halt_until)]_vars

\* a thread that was past the halt test when another set the halt
C32_PastTheTest ==
    /\ Looking
    /\ IsHalted(call.clock, call.halt_until)
    /\ \E t \in Threads : call.th[t].pc \in {"throttle", "sleep", "request"}

(* ========================= claims: derivatives ======================== *)
\* the output is missing, or the source mtime is known and the output older
Stale(out_mtime, source_mtime) ==
    \/ out_mtime = 0
    \/ source_mtime # 0 /\ out_mtime < source_mtime

\* this step is a call of ensure_derivatives
Calls == Deriving /\ call'.n = call.n + 1

\* what a returning call does to the thumb file
ThumbByPolicy ==
    /\ call'.thumb_created <=> Stale(call.thumb, call'.source_mtime)
    /\ call'.thumb = IF call'.thumb_created THEN call.clock ELSE call.thumb

\* what a returning call does to the mid file
MidByPolicy ==
    /\ call'.mid_created <=> Stale(call.mid, call'.source_mtime)
    /\ call'.mid = IF call'.mid_created THEN call.clock ELSE call.mid

\* nothing to do: the source is not opened, the result is false, false
NothingToDo ==
    (/\ ~Stale(call.thumb, call'.source_mtime)
     /\ ~Stale(call.mid, call'.source_mtime)
     /\ ~call'.repair) =>
        /\ call'.returned /\ ~call'.opened
        /\ ~call'.thumb_created /\ ~call'.mid_created

\* C28 as stated: each output is regenerated exactly when it is missing or
\* older than a known source mtime, thumb and mid each for itself; when
\* neither needs it and repair_mid_exif is off the source is not opened and
\* the result is false, false.
C28_RegenPolicy ==
    [][Calls => /\ call'.returned => ThumbByPolicy /\ MidByPolicy
                /\ NothingToDo]_vars

\* C28, amended: as above for thumb, and for mid when repair_mid_exif is
\* off; with repair_mid_exif on an existing mid without EXIF block is
\* regenerated as well, whatever the source mtime.
C28_RegenPolicyRepairOff ==
    [][Calls =>
          /\ call'.returned =>
                /\ ThumbByPolicy
                /\ ~call'.repair => MidByPolicy
                /\ call'.repair =>
                      (call'.mid_created <=>
                          \/ Stale(call.mid, call'.source_mtime)
                          \/ ~call.mid_exif)
          /\ NothingToDo]_vars

\* a call regenerated a stale thumb and left a fresh mid alone
C28_Witness ==
    /\ Deriving /\ call.n = 1 /\ call.returned /\ ~call.repair
    /\ call.source_mtime = 2
    /\ call.thumb_created /\ ~call.mid_created
    /\ call.prev.thumb = 1 /\ call.prev.mid = 2

\* C29: a derivative generated by a call with source_mtime1 is regenerated
\* by any later call with source_mtime2 > source_mtime1, whatever the
\* wall-clock time of the first generation.
C29_NewerSourceRegenerates ==
    [][(Calls /\ call'.returned) =>
          /\ (call.t_against >= 1 /\ call'.source_mtime > call.t_against)
                => call'.thumb_created
          /\ (call.m_against >= 1 /\ call'.source_mtime > call.m_against)
                => call'.mid_created]_vars

\* C30: of two consecutive calls with the same source_mtime and the same
\* source the second regenerates nothing, wherever source_mtime lies
\* relative to the clock at which the first call wrote.
C30_SecondCallIsIdle ==
    [][(/\ Calls /\ call'.returned
        /\ call.n >= 1 /\ call.returned
        /\ call'.source_mtime = call.source_mtime
        /\ call'.repair = call.repair) =>
          ~call'.thumb_created /\ ~call'.mid_created]_vars

(* ========================= claims: the grid =========================== *)
\* the side of a cell, in metres
Side(cell_m) == IF cell_m > MinCell THEN cell_m ELSE MinCell

\* the point lies in the cell number i (south to north), j (west to east)
InCell(pt, i, j, cell_m) ==
    /\ i * Side(cell_m) <= pt.lat_u
    /\ pt.lat_u < (i + 1) * Side(cell_m)
    /\ j * Side(cell_m) * 1000 <= pt.lon_u * CosThousandths(pt.lat_u)
    /\ pt.lon_u * CosThousandths(pt.lat_u) < (j + 1) * Side(cell_m) * 1000

\* the two points lie in one cell
InOneCell(a, b, cell_m) ==
    \E i \in {a.lat_u \div Side(cell_m) + d : d \in {0 - 1, 0, 1}},
       j \in (0 - 11) .. 20 :
       InCell(a, i, j, cell_m) /\ InCell(b, i, j, cell_m)

BothKeyed == Keying /\ call.key_a # NoKey /\ call.key_b # NoKey

RequestInFlight == InSession /\ call.in_flight

C34_NoRequestInTransaction ==
    RequestInFlight /\ call.job = "ingest" => ~call.lock /\ ~call.dirty

(* ======================= claims: ingest at its end ==================== *)
\* the ingest job came to the end of its loop and returned
IngestFinished == cfg.jobType = "ingest" /\ cfg.exists /\ pc = "returned"

\* the items whose catalog row the job committed
Committed == {i \in 1..Len(log) : log[i].out = "ok"}

\* C35: when an ingest job finishes, every processed item is counted in
\* exactly one of upserted and errors (processed = upserted + errors), and
\* upserted is the number of items whose catalog row the job committed.
C35_CountersAddUp ==
    IngestFinished =>
        /\ cnt.processed = cnt.upserted + cnt.errors
        /\ cnt.upserted = Cardinality(Committed)

\* the catalog rows at the rel_path of an item the job imported or replaced
\* by name, whatever the item's outcome
RowsOfItems ==
    UNION {RowAt(photos, log[i].rel) :
             i \in {j \in 1..Len(log) : /\ log[j].path \in {"import", "replace"}
                                        /\ log[j].rel # NoRel}}

\* C36: after an ingest job finishes, every catalog row that the job
\* inserted or replaced by name and that is still in the catalog has both
\* its thumb and its mid file, also when the item failed part-way.
C36_RowsHaveDerivatives ==
    IngestFinished =>
        \A r \in RowsOfItems : thumb[r.guid] # 0 /\ mid[r.guid] # 0

\* the rows that a normal import of this job created and committed
ImportedRows ==
    UNION {log[i].row : i \in {j \in 1..Len(log) : /\ log[j].out = "ok"
                                                   /\ log[j].path = "import"}}

\* C37: every catalog row created by a normal import has a datetime_original
\* that is not null and whose day is the YYYY/MM/DD directory of its
\* rel_path, for every configured order of the date fallbacks.
C37_DateIsTheDirectory ==
    \A r \in ImportedRows : r.dt # None /\ r.dt = r.rel_path.date

(* ===================== claims: coordinates that change ================ *)
\* C38: whenever a photo carries lookup status ok, its geo_cache_key is the
\* cache key of the grid cell of its current coordinates; after an upsert
\* that changed the coordinates of a geocoded photo the location is looked
\* up again.
C38_KeyFollowsCoordinates ==
    (/\ call.op = "enrich_photo_location" /\ call.done
     /\ call.photo.geo_lookup_status = "ok"
     /\ call.photo.gps_latitude # None /\ call.photo.gps_longitude # None) =>
        call.photo.geo_cache_key = KeyFor("geonames", call.photo)

(* ========================= claims: the job record ===================== *)
\* C39: in every persisted job record finished_at is set if and only if the
\* state is done or failed, and started_at is set whenever the state is
\* running, done or failed.
C39_TimesFollowState ==
    /\ job.finished_at <=> job.state \in {"done", "failed"}
    /\ job.state \in {"running", "done", "failed"} => job.started_at

\* the ingest job was called with manage_job_state = false
Unmanaged == cfg.jobType = "ingest" /\ ~cfg.manage

\* C40: run_ingest_job called with manage_job_state = false never changes
\* the job's state, started_at, finished_at or message, on normal completion
\* and on a job-level exception alike; it writes only the counters.
C40_UnmanagedWritesCounters ==
    [][Unmanaged =>
         /\ job'.state = job.state
         /\ job'.started_at = job.started_at
         /\ job'.finished_at = job.finished_at
         /\ job'.message = job.message]_vars

\* the unmanaged job returned and its counters are in the record
C40_Witness ==
    /\ Unmanaged /\ pc = "returned"
    /\ job.processed > 0 /\ job.upserted > 0
    /\ job.state = "queued"

\* the unmanaged job ended in its job-level except branch
C40_WitnessException == Unmanaged /\ pc = "returned_exc" /\ cnt.processed > 0
====
